---- MODULE Spec2Model ----
(***************************************************************************)
(* A model of the C-syntax emitter of igo (package to_go): the printer's   *)
(* item interface (print, flush, comment interleaving, the whitespace      *)
(* buffer) and the trimmer filter that sits between the printer's raw      *)
(* buffer and the caller's writer.                                         *)
(*                                                                         *)
(* Bytes are one-character strings, byte strings are sequences of them.    *)
(* The printer is one record p whose fields carry the names of the fields  *)
(* of struct printer; every method is an operator from printer records to  *)
(* printer records.  Fields of p that start with "h" are history fields:   *)
(* they record what a method did and are never read by the methods.        *)
(***************************************************************************)
EXTENDS Integers, Sequences, FiniteSets

VARIABLES
    p,      \* the printer (struct printer), with its history fields
    pc,     \* where Config.fprint is: "print", "flushed", "write", "done"
    calls,  \* number of print calls the tree walk has made
    walk,   \* the kind of tree walk: which items it prints
    tr,     \* the trimmer (struct trimmer)
    wr,     \* the caller's writer: bytes received, failure bookkeeping
    fed,    \* number of bytes handed to trimmer.Write so far
    raw,    \* the raw buffer handed to the trimmer
    fp,     \* one Config.Fprint call: its node, its error, the bytes written
    cli,    \* one run of the igo command (func main)
    ap,     \* one ast.Fprint call (the printer of package ast)
    lex,    \* one offside scan of an indented source
    ww,     \* one writeWhitespace call: the printer and the loop's index
    lb      \* one writeByte or writeString call: the printer and the item

vars == <<p, pc, calls, walk, tr, wr, fed, raw, fp, cli, ap, lex, ww, lb>>

\* the variables of an emission, and the others
emitter == <<p, pc, calls, walk, tr, wr, fed>>

others == <<raw, fp, cli, ap, lex, ww, lb>>

----------------------------------------------------------------------------
\* Program constants

maxNewlines == 2

debug == FALSE

infinity == 1073741824

wsbufCap == 16

\* tabwriter.Escape (the byte 0xff)
Escape == "ESC"

\* whiteSpace constants
ignore == "ignore"
blank == " "
vtab == "VT"
newline == "\n"
formfeed == "\f"
indent == ">"
unindent == "<"

\* pmode
noExtraLinebreak == 1

----------------------------------------------------------------------------
\* Bounds of the model

\* print calls made by the tree walk in one emission
MaxCalls == 3

\* bytes handed to the trimmer in one emission
MaxFed == 4

\* command-line arguments of one run of the igo command
MaxArgs == 3

\* entries in the whitespace buffer of one writeWhitespace call
MaxWs == 3

\* objects of the graph handed to ast.Fprint
MaxObjects == 2

\* logical lines of one offside scan
MaxLines == 4

\* the deepest column a logical line starts in
MaxColumn == 3

----------------------------------------------------------------------------
\* Byte-string helpers

Min(a, b) == IF a < b THEN a ELSE b

Rep(ch, n) == [i \in 1..n |-> ch]

Drop(s, n) == SubSeq(s, n + 1, Len(s))

Take(s, n) == SubSeq(s, 1, n)

HasPrefix(s, pre) ==
    Len(s) >= Len(pre) /\ Take(s, Len(pre)) = pre

\* unicode.IsSpace on the bytes that occur here
IsSpace(ch) == ch \in {" ", "\t", "\n", "VT", "\f", "\r"}

RECURSIVE trimRight(_)
trimRight(s) ==
    IF Len(s) > 0 /\ IsSpace(s[Len(s)]) THEN trimRight(Take(s, Len(s) - 1)) ELSE s

RECURSIVE trimLeft(_)
trimLeft(s) ==
    IF Len(s) > 0 /\ IsSpace(s[1]) THEN trimLeft(Drop(s, 1)) ELSE s

\* strings.TrimSpace
TrimSpace(s) == trimLeft(trimRight(s))

\* strings.LastIndex(s, ":"), 0-based, -1 if absent
LastIndexColon(s) ==
    LET hits == {i \in 1..Len(s) : s[i] = ":"}
    IN IF hits = {} THEN -1 ELSE (CHOOSE i \in hits : \A j \in hits : j <= i) - 1

Digits == <<"0", "1", "2", "3", "4", "5", "6", "7", "8", "9">>

DigitChars == {Digits[i] : i \in 1..10}

DigitVal(ch) == (CHOOSE i \in 1..10 : Digits[i] = ch) - 1

RECURSIVE digitsVal(_)
digitsVal(s) ==
    IF Len(s) = 0 THEN 0
    ELSE 10 * digitsVal(Take(s, Len(s) - 1)) + DigitVal(s[Len(s)])

\* strconv.Atoi: an optional sign and at least one decimal digit
Atoi(s) ==
    LET signed == Len(s) > 0 /\ s[1] \in {"+", "-"}
        body == IF signed THEN Drop(s, 1) ELSE s
        ok == Len(body) > 0 /\ \A i \in 1..Len(body) : body[i] \in DigitChars
    IN [ok |-> ok,
        val |-> IF ~ok THEN 0
                ELSE IF signed /\ s[1] = "-" THEN 0 - digitsVal(body)
                ELSE digitsVal(body)]

\* the %d verb of fmt.Sprintf, for n >= 0
RECURSIVE Itoa(_)
Itoa(n) ==
    IF n < 10 THEN <<Digits[n + 1]>>
    ELSE Itoa(n \div 10) \o <<Digits[(n % 10) + 1]>>

----------------------------------------------------------------------------
\* Positions (token.Position) and the position service (token.FileSet)

Position(f, o, l, c) == [Filename |-> f, Offset |-> o, Line |-> l, Column |-> c]

\* the zero token.Position; it is not valid
NoPosition == Position(<<>>, 0, 0, 0)

IsValid(pos) == pos.Line > 0

\* token.NoPos
NoPos == 0

\* name of the one registered source file
SrcFile == <<"a">>

\* every source line of the registered file holds LineWidth bytes
LineWidth == 4

\* fset.Position: the file has base 1 and a regular line table
posFor(x) ==
    IF x = NoPos THEN NoPosition
    ELSE Position(SrcFile, x - 1, ((x - 1) \div LineWidth) + 1, ((x - 1) % LineWidth) + 1)

lineFor(x) == posFor(x).Line

----------------------------------------------------------------------------
\* Tokens (package token): the kinds the tree walk prints here and their text

TokStr(t) ==
    CASE t = "ADD" -> <<"+">>
      [] t = "SUB" -> <<"-">>
      [] t = "MUL" -> <<"*">>
      [] t = "QUO" -> <<"/">>
      [] t = "AND" -> <<"&">>
      [] t = "XOR" -> <<"^">>
      [] t = "LSS" -> <<"<">>
      [] t = "GTR" -> <<">">>
      [] t = "SHL" -> <<"<", "<">>
      [] t = "ARROW" -> <<"<", "-">>
      [] t = "INC" -> <<"+", "+">>
      [] t = "DEC" -> <<"-", "-">>
      [] t = "LAND" -> <<"&", "&">>
      [] t = "AND_NOT" -> <<"&", "^">>
      [] t = "PERIOD" -> <<".">>
      [] t = "COMMA" -> <<",">>
      [] t = "LPAREN" -> <<"(">>
      [] t = "RPAREN" -> <<")">>
      [] t = "LBRACE" -> <<"{">>
      [] t = "RBRACE" -> <<"}">>
      [] t = "RETURN" -> <<"r", "e", "t", "u", "r", "n">>

\* the tokens after which a line break implies a semicolon
SemiTokens ==
    {"BREAK", "CONTINUE", "FALLTHROUGH", "RETURN", "INC", "DEC",
     "RPAREN", "RBRACK", "RBRACE"}

----------------------------------------------------------------------------
\* struct printer after p.init, for a configuration and a comment list

initPrinter(sourcePos, cfgIndent, comments) ==
    [SourcePos |-> sourcePos, Indent |-> cfgIndent,
     output |-> <<>>, indent |-> 0, mode |-> 0, impliedSemi |-> FALSE,
     lastTok |-> "ILLEGAL", wsbuf |-> <<>>,
     pos |-> Position(<<>>, 0, 1, 1), out |-> Position(<<>>, 0, 1, 1),
     last |-> NoPosition,
     comments |-> comments, cindex |-> 0, comment |-> <<>>,
     commentOffset |-> 0, commentNewline |-> FALSE,
     panicked |-> FALSE,
     hWritten |-> <<>>, hClog |-> <<>>, hUnderflow |-> 0,
     hItems |-> 0, hStep |-> <<>>, hOverflow |-> <<>>]

\* internalError reports and panics in debug builds only
internalError(q) == IF debug THEN [q EXCEPT !.panicked = TRUE] ELSE q

commentsHaveNewline(list) ==
    \E i \in 1..Len(list) :
        \/ i > 1 /\ lineFor(list[i].pos) # lineFor(list[1].pos)
        \/ LET t == list[i].text
           IN Len(t) >= 2 /\ (t[2] = "/" \/ \E k \in 1..Len(t) : t[k] = "\n")

RECURSIVE nextComment(_)
nextComment(q) ==
    IF q.cindex < Len(q.comments)
    THEN LET c == q.comments[q.cindex + 1]
             q1 == [q EXCEPT !.cindex = q.cindex + 1]
         IN IF Len(c) > 0
            THEN [q1 EXCEPT !.comment = c,
                            !.commentOffset = posFor(c[1].pos).Offset,
                            !.commentNewline = commentsHaveNewline(c)]
            ELSE nextComment(q1)
    ELSE [q EXCEPT !.commentOffset = infinity]

SourceLine(pos) ==
    <<Escape, "/", "/", "l", "i", "n", "e", " ">> \o pos.Filename \o <<":">>
        \o Itoa(pos.Line) \o <<"\n", Escape>>

\* the indentation atLineBegin writes: n tabs
writeIndent(q, n) ==
    [q EXCEPT !.output = q.output \o Rep("\t", n),
              !.pos.Offset = q.pos.Offset + n,
              !.pos.Column = q.pos.Column + n,
              !.out.Column = q.out.Column + n]

\* atLineBegin that compares the lines only
atLineBeginLineOnly(q, pos) ==
    writeIndent(IF q.SourcePos /\ IsValid(pos) /\ q.out.Line # pos.Line
                THEN [q EXCEPT !.output = q.output \o SourceLine(pos),
                               !.out.Filename = pos.Filename,
                               !.out.Line = pos.Line]
                ELSE q,
                q.Indent + q.indent)

atLineBegin(q, pos) ==
    writeIndent(IF q.SourcePos /\ IsValid(pos)
                     /\ (q.out.Line # pos.Line \/ q.out.Filename # pos.Filename)
                THEN [q EXCEPT !.output = q.output \o SourceLine(pos),
                               !.out.Filename = pos.Filename,
                               !.out.Line = pos.Line]
                ELSE q,
                q.Indent + q.indent)

\* writeByte after its line-begin check: the bytes and the positions
putByte(q, ch, n) ==
    IF ch \in {"\n", "\f"}
    THEN [q EXCEPT !.output = q.output \o Rep(ch, n),
                   !.pos.Offset = q.pos.Offset + n,
                   !.pos.Line = q.pos.Line + n,
                   !.out.Line = q.out.Line + n,
                   !.pos.Column = 1,
                   !.out.Column = 1]
    ELSE [q EXCEPT !.output = q.output \o Rep(ch, n),
                   !.pos.Offset = q.pos.Offset + n,
                   !.pos.Column = q.pos.Column + n,
                   !.out.Column = q.out.Column + n]

writeByte(q, ch, n) ==
    putByte(IF q.out.Column = 1 THEN atLineBegin(q, q.pos) ELSE q, ch, n)

\* writeString after its line-begin check: the bytes and the positions;
\* at is the position s is written at
putString(q, at, s, isLit) ==
    LET esc == IF isLit THEN <<Escape>> ELSE <<>>
        nls == {i \in 1..Len(s) : s[i] = "\n"}
        nlines == Cardinality(nls)
        li == (CHOOSE i \in nls : \A j \in nls : j <= i) - 1
        col == IF nlines > 0 THEN Len(s) - li ELSE at.Column + Len(s)
        end == Position(at.Filename, at.Offset + Len(s), at.Line + nlines, col)
    IN [q EXCEPT !.output = q.output \o esc \o s \o esc,
                 !.pos = end,
                 !.out.Line = q.out.Line + nlines,
                 !.out.Column = IF nlines > 0 THEN Len(s) - li ELSE q.out.Column + Len(s),
                 !.last = end]

\* writeString from the update of p.pos on
placeString(q, pos, s, isLit) ==
    putString(q, IF IsValid(pos) THEN pos ELSE q.pos, s, isLit)

writeString(q, pos, s, isLit) ==
    placeString(IF q.out.Column = 1 THEN atLineBegin(q, pos) ELSE q, pos, s, isLit)

\* applyUnindent without the reset of a negative depth
applyUnindentNoReset(q) ==
    [(IF q.indent - 1 < 0 THEN internalError(q) ELSE q) EXCEPT !.indent = q.indent - 1]

\* case unindent of writeWhitespace: a negative depth is an internal error
\* and is reset to 0
applyUnindent(q) ==
    IF q.indent - 1 < 0
    THEN [internalError(q) EXCEPT !.indent = 0, !.hUnderflow = q.hUnderflow + 1]
    ELSE [q EXCEPT !.indent = q.indent - 1]

\* one iteration of the loop of writeWhitespace without the swap of a line
\* break with the unindent after it
wwStepNoSwap(q, i, n) ==
    LET ch == q.wsbuf[i]
    IN CASE ch = ignore -> [q |-> q, i |-> i + 1]
         [] ch = indent -> [q |-> [q EXCEPT !.indent = q.indent + 1], i |-> i + 1]
         [] ch = unindent -> [q |-> applyUnindent(q), i |-> i + 1]
         [] OTHER -> [q |-> writeByte(q, ch, 1), i |-> i + 1]

\* one iteration of the loop of writeWhitespace at index i (1-based) with
\* the increment of the for statement: the printer and the next index
wwStep(q, i, n) ==
    LET ch == q.wsbuf[i]
    IN CASE ch = ignore -> [q |-> q, i |-> i + 1]
         [] ch = indent -> [q |-> [q EXCEPT !.indent = q.indent + 1], i |-> i + 1]
         [] ch = unindent -> [q |-> applyUnindent(q), i |-> i + 1]
         [] ch \in {newline, formfeed} /\ i + 1 <= n /\ q.wsbuf[i + 1] = unindent ->
               [q |-> [q EXCEPT !.wsbuf[i] = unindent, !.wsbuf[i + 1] = formfeed],
                i |-> i]
         [] OTHER -> [q |-> writeByte(q, ch, 1), i |-> i + 1]

\* the loop of writeWhitespace from index i (1-based) over the first n entries
RECURSIVE wwLoop(_, _, _)
wwNext(r, n) == wwLoop(r.q, r.i, n)

wwLoop(q, i, n) == IF i > n THEN q ELSE wwNext(wwStep(q, i, n), n)

\* the shift of the buffer at the end of writeWhitespace
shiftWhitespace(q, n) == [q EXCEPT !.wsbuf = Drop(q.wsbuf, n)]

writeWhitespace(q, n) == shiftWhitespace(wwLoop(q, 1, n), n)

----------------------------------------------------------------------------
\* Comments.  A comment is [id, pos, text]; a comment group is its List.

LineBreaks == {newline, formfeed}

\* the first loop of writeCommentPrefix (comment on the same line as the
\* last item) from entry i: [ws, hasSep, j], j the 0-based index it stops at
RECURSIVE sameLineScan(_, _, _)
sameLineScan(ws, i, hasSep) ==
    IF i > Len(ws) THEN [ws |-> ws, hasSep |-> hasSep, j |-> 0]
    ELSE CASE ws[i] = blank -> sameLineScan([ws EXCEPT ![i] = ignore], i + 1, hasSep)
           [] ws[i] = vtab -> sameLineScan(ws, i + 1, TRUE)
           [] ws[i] = indent -> sameLineScan(ws, i + 1, hasSep)
           [] OTHER -> [ws |-> ws, hasSep |-> hasSep, j |-> i - 1]

\* otherLineScan that does not record the dropped line break
RECURSIVE otherLineScanNoDrop(_, _, _, _, _)
otherLineScanNoDrop(ws, i, hasPrev, tok, sameColumn) ==
    IF i > Len(ws) THEN [ws |-> ws, dropped |-> FALSE, j |-> 0]
    ELSE CASE ws[i] \in {blank, vtab} ->
                otherLineScanNoDrop([ws EXCEPT ![i] = ignore], i + 1, hasPrev, tok, sameColumn)
           [] ws[i] = indent -> otherLineScanNoDrop(ws, i + 1, hasPrev, tok, sameColumn)
           [] ws[i] = unindent /\ i + 1 <= Len(ws) /\ ws[i + 1] = unindent ->
                otherLineScanNoDrop(ws, i + 1, hasPrev, tok, sameColumn)
           [] ws[i] = unindent /\ ~(i + 1 <= Len(ws) /\ ws[i + 1] = unindent)
                /\ tok # "RBRACE" /\ sameColumn ->
                otherLineScanNoDrop(ws, i + 1, hasPrev, tok, sameColumn)
           [] ws[i] \in LineBreaks ->
                [ws |-> [ws EXCEPT ![i] = ignore], dropped |-> FALSE, j |-> i - 1]
           [] OTHER -> [ws |-> ws, dropped |-> FALSE, j |-> i - 1]

\* the second loop of writeCommentPrefix (comment on a different line):
\* [ws, dropped, j]
RECURSIVE otherLineScan(_, _, _, _, _)
otherLineScan(ws, i, hasPrev, tok, sameColumn) ==
    IF i > Len(ws) THEN [ws |-> ws, dropped |-> FALSE, j |-> 0]
    ELSE CASE ws[i] \in {blank, vtab} ->
                otherLineScan([ws EXCEPT ![i] = ignore], i + 1, hasPrev, tok, sameColumn)
           [] ws[i] = indent -> otherLineScan(ws, i + 1, hasPrev, tok, sameColumn)
           [] ws[i] = unindent /\ i + 1 <= Len(ws) /\ ws[i + 1] = unindent ->
                otherLineScan(ws, i + 1, hasPrev, tok, sameColumn)
           [] ws[i] = unindent /\ ~(i + 1 <= Len(ws) /\ ws[i + 1] = unindent)
                /\ tok # "RBRACE" /\ sameColumn ->
                otherLineScan(ws, i + 1, hasPrev, tok, sameColumn)
           [] ws[i] \in LineBreaks ->
                [ws |-> [ws EXCEPT ![i] = ignore], dropped |-> ~hasPrev, j |-> i - 1]
           [] OTHER -> [ws |-> ws, dropped |-> FALSE, j |-> i - 1]

\* nlimit without the limit
nlimitNone(n) == n

nlimit(n) == IF n > maxNewlines THEN maxNewlines ELSE n

\* the separator after the first loop of writeCommentPrefix
writeSeparator(q, hasSep, pos, next) ==
    IF hasSep THEN q
    ELSE writeByte(q, IF pos.Line = next.Line THEN " " ELSE "\t", 1)

\* the same-line branch of writeCommentPrefix, sc the result of its loop
prefixSameLine(q, sc, pos, next) ==
    writeSeparator(writeWhitespace([q EXCEPT !.wsbuf = sc.ws], sc.j), sc.hasSep, pos, next)

\* the number of line breaks before a comment on another line
prefixLines(q, dropped, pos, hasPrev) ==
    LET n0 == IF IsValid(pos) /\ IsValid(q.last)
              THEN (IF pos.Line - q.last.Line < 0 THEN 0
                    ELSE pos.Line - q.last.Line)
              ELSE 0
        n1 == IF q.indent = 0 /\ dropped THEN n0 + 1 ELSE n0
    IN IF n1 = 0 /\ hasPrev THEN 1 ELSE n1

\* the line breaks after the second loop of writeCommentPrefix
writeBreaks(q, n) == IF n > 0 THEN writeByte(q, "\f", nlimit(n)) ELSE q

\* the other-line branch of writeCommentPrefix after its loop
prefixBreaks(q, dropped, pos, hasPrev) ==
    writeBreaks(q, prefixLines(q, dropped, pos, hasPrev))

\* the other-line branch of writeCommentPrefix, sc the result of its loop
prefixOtherLine(q, sc, pos, hasPrev) ==
    prefixBreaks(writeWhitespace([q EXCEPT !.wsbuf = sc.ws], sc.j), sc.dropped, pos, hasPrev)

\* pos: the comment's position, next: the position of the next item,
\* hasPrev: prev # nil, tok: the next token
writeCommentPrefix(q, pos, next, hasPrev, tok) ==
    IF Len(q.output) = 0 THEN q
    ELSE IF IsValid(pos) /\ pos.Filename # q.last.Filename
    THEN writeByte(q, "\f", maxNewlines)
    ELSE IF pos.Line = q.last.Line /\ ~hasPrev
    THEN prefixSameLine(q, sameLineScan(q.wsbuf, 1, FALSE), pos, next)
    ELSE prefixOtherLine(q, otherLineScan(q.wsbuf, 1, hasPrev, tok, pos.Column = next.Column),
                         pos, hasPrev)

linePrefix == <<"/", "/", "l", "i", "n", "e", " ">>

\* lineDirective that takes a directive only from a valid position in column 1
lineDirectiveColumn1(text, pos) ==
    IF HasPrefix(text, linePrefix) /\ IsValid(pos) /\ pos.Column = 1
    THEN LET ldir == TrimSpace(Drop(text, Len(linePrefix)))
             i == LastIndexColon(ldir)
             a == Atoi(Drop(ldir, i + 1))
         IN IF i >= 0 /\ a.ok /\ a.val > 0
            THEN [is |-> TRUE, file |-> Take(ldir, i), line |-> a.val]
            ELSE [is |-> FALSE, file |-> <<>>, line |-> 0]
    ELSE [is |-> FALSE, file |-> <<>>, line |-> 0]

\* the line directive a comment carries, as writeComment recognises it:
\* [is, file, line]
lineDirective(text, pos) ==
    IF HasPrefix(text, linePrefix) /\ (~IsValid(pos) \/ pos.Column = 1)
    THEN LET ldir == TrimSpace(Drop(text, Len(linePrefix)))
             i == LastIndexColon(ldir)
             a == Atoi(Drop(ldir, i + 1))
         IN IF i >= 0 /\ a.ok /\ a.val > 0
            THEN [is |-> TRUE, file |-> Take(ldir, i), line |-> a.val]
            ELSE [is |-> FALSE, file |-> <<>>, line |-> 0]
    ELSE [is |-> FALSE, file |-> <<>>, line |-> 0]

LineStyle == <<"/", "/">>

BlockStyle == <<" ", "/", "*">>

\* the deferred function of writeComment, d the directive, depth the
\* indentation depth before the call
directiveDone(q, d, depth, id) ==
    IF d.is
    THEN [q EXCEPT !.pos.Filename = d.file,
                   !.pos.Line = d.line,
                   !.pos.Column = 1,
                   !.indent = depth,
                   !.hWritten = Append(q.hWritten, id)]
    ELSE [q EXCEPT !.hWritten = Append(q.hWritten, id)]

\* writeComment for a comment at pos that carries the directive d
writeCommentAt(q, comment, prefix, pos, d) ==
    directiveDone(
        writeString(IF d.is THEN [q EXCEPT !.indent = 0] ELSE q, pos,
                    prefix \o trimRight(Drop(comment.text, 1))
                        \o (IF prefix # LineStyle THEN <<" ", "*", "/", " ">> ELSE <<>>),
                    TRUE),
        d, q.indent, comment.id)

writeComment(q, comment, prefix) ==
    writeCommentAt(q, comment, prefix, posFor(comment.pos),
                   lineDirective(comment.text, posFor(comment.pos)))

\* the loop of writeCommentSuffix from entry i: [ws, needs, wrote, droppedFF]
RECURSIVE suffixScan(_, _, _, _, _)
suffixScan(ws, i, needs, wrote, droppedFF) ==
    IF i > Len(ws) THEN [ws |-> ws, needs |-> needs, wrote |-> wrote, droppedFF |-> droppedFF]
    ELSE CASE ws[i] \in {blank, vtab} ->
                suffixScan([ws EXCEPT ![i] = ignore], i + 1, needs, wrote, droppedFF)
           [] ws[i] \in LineBreaks /\ needs ->
                suffixScan(ws, i + 1, FALSE, TRUE, droppedFF)
           [] ws[i] \in LineBreaks /\ ~needs ->
                suffixScan([ws EXCEPT ![i] = ignore], i + 1, needs, wrote,
                           droppedFF \/ ws[i] = formfeed)
           [] OTHER -> suffixScan(ws, i + 1, needs, wrote, droppedFF)

\* the line break at the end of writeCommentSuffix
suffixBreak(q, sc) ==
    IF sc.needs
    THEN [p |-> writeByte(q, "\n", 1), wroteNewline |-> TRUE, droppedFF |-> sc.droppedFF]
    ELSE [p |-> q, wroteNewline |-> sc.wrote, droppedFF |-> sc.droppedFF]

\* writeCommentSuffix after its loop
suffixWrite(q, sc) ==
    suffixBreak(writeWhitespace([q EXCEPT !.wsbuf = sc.ws], Len(sc.ws)), sc)

\* [p, wroteNewline, droppedFF]
writeCommentSuffix(q, needsLinebreak) ==
    suffixWrite(q, suffixScan(q.wsbuf, 1, needsLinebreak, FALSE, FALSE))

\* commentBefore that holds every comment back while impliedSemi is set
commentBeforeNoSemi(q, next) ==
    q.commentOffset < next.Offset /\ ~q.impliedSemi

\* commentBefore without the test of commentNewline: under impliedSemi every
\* group is held back
commentBeforeNoNewline(q, next) == q.commentOffset < next.Offset /\ ~q.impliedSemi

commentBefore(q, next) ==
    q.commentOffset < next.Offset /\ (~q.impliedSemi \/ ~q.commentNewline)

\* the bytes appended to the output between printer states a and b
Grown(a, b) == Drop(b.output, Len(a.output))

\* the record of one written comment: q before the prefix, q1 after it, q2
\* after the text
logComment(q, q1, q2, c, next, hasLast, tok) ==
    [q2 EXCEPT !.hClog =
        Append(q2.hClog,
               [id |-> c.id, text |-> c.text, cpos |-> posFor(c.pos),
                next |-> next, tok |-> tok, hasPrev |-> hasLast,
                outEmpty |-> Len(q.output) = 0, lastBefore |-> q.last,
                indentBefore |-> q.indent, indentPrefix |-> q1.indent,
                wsBefore |-> q.wsbuf, wsPrefix |-> q1.wsbuf,
                prefixBytes |-> Grown(q, q1), textBytes |-> Grown(q1, q2),
                outEnd |-> Len(q2.output),
                posAfter |-> q2.pos, lastAfter |-> q2.last,
                indentAfter |-> q2.indent, semi |-> q.impliedSemi,
                groupNewline |-> q.commentNewline])]

\* the text of one comment of the loop body, q1 the printer after the prefix
commentText(q, q1, c, next, hasLast, tok) ==
    logComment(q, q1, writeComment(q1, c, IF tok = "LBRACE" THEN BlockStyle ELSE LineStyle),
               c, next, hasLast, tok)

\* the body of the inner loop of intersperseComments for comment c
oneComment(q, c, next, hasLast, tok) ==
    commentText(q,
                IF tok = "LBRACE" THEN q
                ELSE writeCommentPrefix(q, posFor(c.pos), next, hasLast, tok),
                c, next, hasLast, tok)

\* the inner loop of intersperseComments over p.comment.List from entry i;
\* hasLast: last # nil.  Each comment written is logged in hClog.
RECURSIVE writeGroup(_, _, _, _, _, _)
writeGroup(q, list, i, next, hasLast, tok) ==
    IF i > Len(list) THEN q
    ELSE writeGroup(oneComment(q, list[i], next, hasLast, tok),
                    list, i + 1, next, TRUE, tok)

\* the outer loop of intersperseComments: [p, hasLast]
RECURSIVE commentLoop(_, _, _, _)
commentLoop(q, next, tok, hasLast) ==
    IF commentBefore(q, next)
    THEN commentLoop(nextComment(writeGroup(q, q.comment, 1, next, hasLast, tok)),
                     next, tok, TRUE)
    ELSE [p |-> q, hasLast |-> hasLast]

\* needsLinebreak of intersperseComments
needsLinebreakNoEof(q, tok) ==
    tok = "RBRACE" /\ q.mode % 2 = 0

needsLinebreak(q, tok) ==
    (tok = "RBRACE" /\ q.mode % 2 = 0) \/ tok = "EOF"

\* intersperseComments after its loop, r the loop's result
commentsDone(r, tok) ==
    IF r.hasLast
    THEN writeCommentSuffix(r.p, needsLinebreak(r.p, tok))
    ELSE [p |-> internalError(r.p), wroteNewline |-> FALSE, droppedFF |-> FALSE]

\* [p, wroteNewline, droppedFF]
intersperseComments(q, next, tok) ==
    commentsDone(commentLoop(q, next, tok, FALSE), tok)

\* [p, wroteNewline, droppedFF]
flush(q, next, tok) ==
    IF commentBefore(q, next)
    THEN intersperseComments(q, next, tok)
    ELSE [p |-> writeWhitespace(q, Len(q.wsbuf)), wroteNewline |-> FALSE,
          droppedFF |-> FALSE]

----------------------------------------------------------------------------
\* The printing interface

\* mayCombine without the shift case of LSS
mayCombineNoShift(prev, next) ==
    CASE prev = "INT" -> next = "."
      [] prev = "ADD" -> next = "+"
      [] prev = "SUB" -> next = "-"
      [] prev = "QUO" -> next = "*"
      [] prev = "LSS" -> next = "-"
      [] prev = "AND" -> next = "&" \/ next = "^"
      [] OTHER -> FALSE

mayCombine(prev, next) ==
    CASE prev = "INT" -> next = "."
      [] prev = "ADD" -> next = "+"
      [] prev = "SUB" -> next = "-"
      [] prev = "QUO" -> next = "*"
      [] prev = "LSS" -> next = "-" \/ next = "<"
      [] prev = "AND" -> next = "&" \/ next = "^"
      [] OTHER -> FALSE

\* Items handed to print.  k: "mode", "ws", "ident", "lit", "tok", "pos", "str";
\* t: the token, literal kind or whitespace byte; n: the pmode or token.Pos;
\* s: the text of an identifier, literal or string.
Item(k, t, n, s) == [k |-> k, t |-> t, n |-> n, s |-> s]

\* queueWhiteSpace that leaves p.lastTok as it is
queueWhiteSpaceKeepTok(q, x) ==
    [q EXCEPT !.wsbuf = Append(q.wsbuf, x),
              !.impliedSemi = IF x \in LineBreaks THEN FALSE ELSE q.impliedSemi]

\* the entry x is put in the buffer
queueWhiteSpace(q, x) ==
    [q EXCEPT !.wsbuf = Append(q.wsbuf, x),
              !.impliedSemi = IF x \in LineBreaks THEN FALSE ELSE q.impliedSemi,
              !.lastTok = "ILLEGAL"]

\* the record of a flush of the full buffer: q before it, q1 after the new
\* item is queued
logOverflow(q, q1, x) ==
    [q1 EXCEPT !.hOverflow = [ws |-> q.wsbuf, item |-> x, bytes |-> Grown(q, q1),
                              after |-> q1.wsbuf,
                              indentBefore |-> q.indent, indentAfter |-> q1.indent]]

\* case whiteSpace that queues the item whether the buffer is full or not
printWhiteSpaceNoFlush(q, x) ==
    IF x = ignore THEN q ELSE queueWhiteSpace(q, x)

\* case whiteSpace of print
printWhiteSpace(q, x) ==
    IF x = ignore THEN q
    ELSE IF Len(q.wsbuf) = wsbufCap
    THEN logOverflow(q, queueWhiteSpace(writeWhitespace(q, Len(q.wsbuf)), x), x)
    ELSE queueWhiteSpace(q, x)

\* the guard of case token.Token of print: a blank is forced into the buffer
guardCombine(q, s) ==
    IF mayCombine(q.lastTok, s[1])
    THEN [(IF Len(q.wsbuf) # 0 THEN internalError(q) ELSE q) EXCEPT !.wsbuf = <<" ">>]
    ELSE q

\* the end of print's loop body: q0 the printer before the type switch, q
\* after it, f the result of the flush, q1 the printer after the extra line
\* breaks, q2 after the data; the step is recorded in hStep
printDone(q0, q, f, brk, q1, q2, kind, data, isLit, semi) ==
    [q2 EXCEPT !.impliedSemi = IF brk THEN FALSE ELSE semi,
               !.hItems = q2.hItems + 1,
               !.hStep =
                  [kind |-> kind, isLit |-> isLit,
                   prevTok |-> q0.lastTok, tok |-> q.lastTok, data |-> data,
                   wsBefore |-> q0.wsbuf, next |-> q.pos, semiBefore |-> q.impliedSemi,
                   mode |-> q.mode,
                   outBefore |-> Len(q0.output), outFlushed |-> Len(f.p.output),
                   outData |-> Len(q1.output), outAfter |-> Len(q2.output),
                   indentFlushed |-> f.p.indent, posFlushed |-> f.p.pos,
                   lastBefore |-> q0.last, lastFlushed |-> f.p.last,
                   wroteNewline |-> f.wroteNewline, droppedFF |-> f.droppedFF,
                   cmtsBefore |-> Len(q0.hWritten), cmtsAfter |-> Len(f.p.hWritten),
                   pendingOffset |-> f.p.commentOffset,
                   pendingNewline |-> f.p.commentNewline]]

\* the data is written at next = q.pos
printText(q0, q, f, brk, q1, kind, data, isLit, semi) ==
    printDone(q0, q, f, brk, q1, writeString(q1, q.pos, data, isLit),
              kind, data, isLit, semi)

\* the extra line breaks before the data, n their number
printBreaks(q0, q, f, n, kind, data, isLit, semi) ==
    printText(q0, q, f, ~f.p.impliedSemi /\ n > 0,
              IF ~f.p.impliedSemi /\ n > 0
              THEN writeByte(f.p, IF f.droppedFF THEN "\f" ELSE "\n", n)
              ELSE f.p,
              kind, data, isLit, semi)

\* the number of extra line breaks, from the gap n0 to the next item
extraBreaks(wroteNewline, n0) ==
    IF wroteNewline /\ n0 = maxNewlines THEN maxNewlines - 1 ELSE n0

\* print after the flush f
printFlushed(q0, q, f, kind, data, isLit, semi) ==
    printBreaks(q0, q, f, extraBreaks(f.wroteNewline, nlimit(q.pos.Line - f.p.pos.Line)),
                kind, data, isLit, semi)

\* the tail of print's loop body for an item that has data: flush, the
\* extra line breaks, the data.  q is the printer after the type switch,
\* q0 the printer before it.
printData(q0, q, kind, data, isLit, semi) ==
    printFlushed(q0, q, flush(q, q.pos, q.lastTok), kind, data, isLit, semi)

\* the type switch of print for an item with data: p.lastTok and the guard
typeSwitch(q, arg) ==
    CASE arg.k = "ident" -> [q EXCEPT !.lastTok = "IDENT"]
      [] arg.k = "lit" -> [q EXCEPT !.lastTok = arg.t]
      [] arg.k = "tok" -> [guardCombine(q, TokStr(arg.t)) EXCEPT !.lastTok = arg.t]
      [] arg.k = "str" -> [q EXCEPT !.lastTok = "STRING"]

\* the data of an item
itemData(arg) == IF arg.k = "tok" THEN TokStr(arg.t) ELSE arg.s

\* impliedSemi as the type switch sets it
itemSemi(arg) == IF arg.k = "tok" THEN arg.t \in SemiTokens ELSE TRUE

\* one iteration of print's loop
printArg(q, arg) ==
    CASE arg.k = "mode" -> [q EXCEPT !.mode = (q.mode + arg.n) % 2]
      [] arg.k = "ws" -> printWhiteSpace(q, arg.t)
      [] arg.k = "pos" ->
            IF arg.n # NoPos THEN [q EXCEPT !.pos = posFor(arg.n)] ELSE q
      [] OTHER ->
            printData(q, typeSwitch(q, arg), arg.k, itemData(arg),
                      arg.k \in {"lit", "str"}, itemSemi(arg))

RECURSIVE print(_, _)
print(q, args) ==
    IF Len(args) = 0 THEN q ELSE print(printArg(q, Head(args)), Tail(args))

\* eofFlush that leaves impliedSemi as the last item set it
eofFlushKeepSemi(q) ==
    flush(q, Position(<<>>, infinity, infinity, 0), "EOF").p

\* Config.fprint after printNode: EOF acts like a newline, then the
\* outstanding comments are flushed
eofFlush(q) ==
    flush([q EXCEPT !.impliedSemi = FALSE],
          Position(<<>>, infinity, infinity, 0), "EOF").p

----------------------------------------------------------------------------
\* Trimmer.  s is the state of one Write call: the trimmer tr, the writer w
\* behind it, m (0-based start of the unwritten text of data), err, and the
\* set fails of the writer calls (numbered within the call) that fail.

\* p.output.Write(bytes): a failing call writes nothing and returns an error
\* named after the call.  kind tells where bytes come from: "space"
\* (p.space), "nl" (aNewline), "esc" (an escaped region), "text".
outputWrite(s, bytes, kind) ==
    LET k == s.k + 1
        late == IF s.w.hFailed > 0 THEN 1 ELSE 0
    IN IF k \in s.fails
       THEN [s EXCEPT !.k = k, !.err = k,
                      !.w.hFailed = s.w.hFailed + 1,
                      !.w.hLate = s.w.hLate + late]
       ELSE [s EXCEPT !.k = k, !.err = 0,
                      !.w.bytes = s.w.bytes \o bytes,
                      !.w.hChunks = Append(s.w.hChunks, [kind |-> kind, bytes |-> bytes]),
                      !.w.hLate = s.w.hLate + late]

resetSpace(s) == [s EXCEPT !.tr.state = "inSpace", !.tr.space = <<>>]

\* data[m:n] for 0-based m and n
Slice(data, m, n) == SubSeq(data, m + 1, n)

\* case inSpace that writes the pending space before a line break
inSpaceKeep(s, data, n, b) ==
    CASE b \in {"\t", " "} -> [s EXCEPT !.tr.space = Append(s.tr.space, b)]
      [] b \in {"\n", "\f"} ->
            outputWrite(resetSpace(outputWrite(s, s.tr.space, "space")), <<"\n">>, "nl")
      [] b = Escape ->
            [outputWrite(s, s.tr.space, "space") EXCEPT !.tr.state = "inEscape", !.m = n + 1]
      [] OTHER ->
            [outputWrite(s, s.tr.space, "space") EXCEPT !.tr.state = "inText", !.m = n]

\* case inSpace of trimmer.Write for data[n] (n 0-based), b already converted
inSpace(s, data, n, b) ==
    CASE b \in {"\t", " "} -> [s EXCEPT !.tr.space = Append(s.tr.space, b)]
      [] b \in {"\n", "\f"} -> outputWrite(resetSpace(s), <<"\n">>, "nl")
      [] b = Escape ->
            [outputWrite(s, s.tr.space, "space") EXCEPT !.tr.state = "inEscape", !.m = n + 1]
      [] OTHER ->
            [outputWrite(s, s.tr.space, "space") EXCEPT !.tr.state = "inText", !.m = n]

\* case inEscape that converts the bytes of the escaped region too
inEscapeConverted(s, data, n, b) ==
    IF b = Escape
    THEN resetSpace(outputWrite(s, [i \in 1..(n - s.m) |->
                                       IF data[s.m + i] = "VT" THEN "\t"
                                       ELSE IF data[s.m + i] = "\f" THEN "\n"
                                       ELSE data[s.m + i]], "esc"))
    ELSE s

\* case inEscape of trimmer.Write
inEscape(s, data, n, b) ==
    IF b = Escape
    THEN resetSpace(outputWrite(s, Slice(data, s.m, n), "esc"))
    ELSE s

\* case inText of trimmer.Write
inText(s, data, n, b) ==
    CASE b \in {"\t", " "} ->
            LET s1 == resetSpace(outputWrite(s, Slice(data, s.m, n), "text"))
            IN [s1 EXCEPT !.tr.space = Append(s1.tr.space, b)]
      [] b \in {"\n", "\f"} ->
            outputWrite(resetSpace(outputWrite(s, Slice(data, s.m, n), "text")),
                        <<"\n">>, "nl")
      [] b = Escape ->
            [outputWrite(s, Slice(data, s.m, n), "text")
                EXCEPT !.tr.state = "inEscape", !.m = n + 1]
      [] OTHER -> s

\* the switch on p.state of trimmer.Write
trimByte(s, data, n, b) ==
    CASE s.tr.state = "inSpace" -> inSpace(s, data, n, b)
      [] s.tr.state = "inEscape" -> inEscape(s, data, n, b)
      [] s.tr.state = "inText" -> inText(s, data, n, b)

\* the loop of trimmer.Write from data[n] (n 0-based); it returns at the
\* first iteration that leaves err set
RECURSIVE trimLoop(_, _, _)
trimLoop(s, data, n) ==
    IF n >= Len(data) THEN s
    ELSE LET b == IF data[n + 1] = "VT" THEN "\t" ELSE data[n + 1]
             s1 == trimByte(s, data, n, b)
         IN IF s1.err # 0 THEN [s1 EXCEPT !.returned = TRUE] ELSE trimLoop(s1, data, n + 1)

\* trimmer.Write(data) on trimmer t and writer w: [tr, w, err]
trimmerWrite(t, w, data, fails) ==
    LET s0 == [tr |-> t, w |-> w, m |-> 0, err |-> 0, k |-> 0, fails |-> fails,
               returned |-> FALSE]
        s1 == trimLoop(s0, data, 0)
        s2 == IF ~s1.returned /\ s1.tr.state \in {"inEscape", "inText"}
              THEN resetSpace(outputWrite(s1, Slice(data, s1.m, Len(data)),
                                          IF s1.tr.state = "inEscape" THEN "esc" ELSE "text"))
              ELSE s1
    IN [tr |-> s2.tr, w |-> s2.w, err |-> s2.err]

----------------------------------------------------------------------------
\* The inputs of one emission: the source layout, the comments, the walk

\* the token.Pos of the byte at (line, column) of the source file
At(line, col) == (line - 1) * LineWidth + col

\* the positions of the successive tokens of the source
TokenPos == <<At(1, 1), At(2, 1), At(5, 1)>>

Comment(id, pos, text) == [id |-> id, pos |-> pos, text |-> text]

IgoText == <<"#", "a">>

GoText == <<"/", "/", "b">>

DirText == <<"/", "/", "l", "i", "n", "e", " ", "f", ":", "2">>

\* the comment lists (ast.File.Comments) a layout walk may be handed, each
\* in source order; ids number the comments in list order
CommentLists ==
    { <<>>,
      << <<Comment(1, At(1, 3), IgoText)>> >>,
      << <<Comment(1, At(1, 3), GoText)>> >>,
      << <<Comment(1, At(3, 1), IgoText), Comment(2, At(4, 1), IgoText)>> >>,
      << <<Comment(1, At(1, 3), IgoText)>>, <<>>, <<Comment(2, At(3, 1), GoText)>> >>,
      << <<Comment(1, At(3, 1), DirText)>> >>,
      << <<Comment(1, NoPos, DirText)>>, <<Comment(2, At(3, 2), DirText)>> >> }

\* the line directive "//line foo.src:42"
FooDirective ==
    <<"/", "/", "l", "i", "n", "e", " ", "f", "o", "o", ".", "s", "r", "c", ":", "4", "2">>

\* a file whose only comment is that directive, in column 1
DirectiveLists == { << <<Comment(1, At(3, 1), FooDirective)>> >> }

\* the comment lists of an operator walk
OpCommentLists == { <<>>, << <<Comment(1, NoPos, IgoText)>> >> }

WhiteSpaces == {blank, vtab, newline, formfeed, indent, unindent}

Ident == Item("ident", "IDENT", 0, <<"x">>)

Tok(t) == Item("tok", t, 0, <<>>)

\* the items with data of a layout walk
DataItems == {Ident, Tok("ADD"), Tok("LBRACE"), Tok("RBRACE")}

\* the items with data of an operator walk
OpItems ==
    {Ident, Item("lit", "INT", 0, <<"1">>), Item("lit", "FLOAT", 0, <<".", "5">>)}
    \cup {Tok(t) : t \in {"ADD", "SUB", "MUL", "QUO", "LSS", "AND", "XOR", "PERIOD",
                          "INC", "ARROW"}}

\* the token positions the walk has not passed yet
Ahead(q) == {TokenPos[i] : i \in {j \in 1..Len(TokenPos) : TokenPos[j] - 1 >= q.pos.Offset}}

\* the argument lists of one print call of a walk of kind w
Args(q, w) ==
    IF w = "layout"
    THEN {<<Item("ws", c, 0, <<>>)>> : c \in WhiteSpaces}
         \cup {<<Item("mode", "", noExtraLinebreak, <<>>)>>}
         \cup {<<Ident>>}
         \cup {<<Item("pos", "", x, <<>>), d>> : x \in Ahead(q), d \in DataItems}
    ELSE IF w = "ops"
    THEN {<<Item("ws", blank, 0, <<>>)>>}
         \cup {<<d>> : d \in OpItems}
    ELSE IF w = "ws"
    THEN {<<Item("ws", c, 0, <<>>)>> : c \in WhiteSpaces}
    ELSE {<<Item("ws", c, 0, <<>>)>> : c \in {blank, newline}} \cup {<<Ident>>}

\* the argument lists of a print call that fills the whitespace buffer up to
\* one entry below its capacity: two whitespace items by turns
Fillers ==
    {[i \in 1..(wsbufCap - 1) |-> Item("ws", IF i % 2 = 1 THEN a ELSE b, 0, <<>>)] :
        a \in WhiteSpaces, b \in WhiteSpaces}

\* the bytes the raw buffer may hold
TrimBytes == {" ", "VT", "\n", "\f", Escape, "a"}

\* the byte strings of 1 to n bytes
Chunks(n) == UNION {[1..k -> TrimBytes] : k \in 1..n}

\* the number of sentinels in a byte string
Sentinels(data) == Cardinality({i \in 1..Len(data) : data[i] = Escape})

\* the byte strings of at most n bytes whose sentinels pair up
Balanced(n) == {<<>>} \cup {data \in Chunks(n) : Sentinels(data) % 2 = 0}

\* most writer calls one trimmer.Write can make
MaxWriterCalls == 2 * MaxFed + 1

\* the writer calls of one trimmer.Write that fail: none, one, or all from one on
FailSets ==
    {{}} \cup {{k} : k \in 1..MaxWriterCalls}
         \cup {k..MaxWriterCalls : k \in 1..MaxWriterCalls}

----------------------------------------------------------------------------
\* The nodes handed to Config.Fprint

\* the dynamic types of a node: the interfaces ast.Expr, ast.Stmt (a
\* *ast.LabeledStmt apart), ast.Decl and ast.Spec, the lists, *ast.File, an
\* ast.Node of none of these ("field": *ast.Field, *ast.Comment, ...), a value
\* that is no ast.Node ("other"), a *CommentedNode inside a CommentedNode, nil
NodeKinds ==
    {"expr", "stmt", "labeledStmt", "decl", "spec", "stmtList", "labeledStmtList",
     "declList", "file", "field", "other", "commentedNode", "nil"}

\* a node: its kind, whether a *CommentedNode wraps it, and the wrapper's
\* comment list ("nil", or "some" for a non-nil list)
Node(kind, wrapped, comments) == [kind |-> kind, wrapped |-> wrapped, comments |-> comments]

NoNode == Node("nil", FALSE, "nil")

Nodes ==
    {Node(k, FALSE, "nil") : k \in NodeKinds \ {"commentedNode"}}
    \cup {Node(k, TRUE, c) : k \in NodeKinds, c \in {"nil", "some"}}

\* node.(ast.Node) succeeds
IsAstNode(kind) == kind \in {"expr", "stmt", "labeledStmt", "decl", "spec", "file", "field"}

\* the cases of the type switch of printNode
Dispatched(kind) ==
    kind \in {"expr", "stmt", "labeledStmt", "decl", "spec", "stmtList",
              "labeledStmtList", "declList", "file"}

\* the comment lists printNode may leave in p.comments: the part of the
\* wrapper's list in the node's range (nil when none is), or ast.File.Comments
NodeComments(node) ==
    IF node.comments # "nil" \/ node.kind = "file"
    THEN OpCommentLists
    ELSE {<<>>}

\* printNode up to the walk: the error of an unsupported node, or the
\* printer ready for the walk
printNodeAnyList(q, node, cl) ==
    IF ~Dispatched(node.kind)
    THEN [err |-> TRUE, p |-> nextComment([q EXCEPT !.comments = cl])]
    ELSE [err |-> FALSE,
          p |-> nextComment([q EXCEPT !.comments = cl,
                                      !.indent = IF node.kind \in {"labeledStmt", "labeledStmtList"}
                                                 THEN 1 ELSE q.indent])]

printNode(q, node, cl) ==
    IF node.comments # "nil" /\ ~IsAstNode(node.kind)
    THEN [err |-> TRUE, p |-> q]
    ELSE IF ~Dispatched(node.kind)
    THEN [err |-> TRUE, p |-> nextComment([q EXCEPT !.comments = cl])]
    ELSE [err |-> FALSE,
          p |-> nextComment([q EXCEPT !.comments = cl,
                                      !.indent = IF node.kind \in {"labeledStmt", "labeledStmtList"}
                                                 THEN 1 ELSE q.indent])]

----------------------------------------------------------------------------
\* The printer of package ast (ast.Fprint)

\* the objects of the graph: structs of one type with the exported fields
\* Name (a string), X and Y (pointers to objects, 0 the nil pointer)
Objects == 1..MaxObjects

FieldNames == <<"Name", "X", "Y">>

Heaps == [Objects -> [X : {0} \cup Objects, Y : {0} \cup Objects]]

\* the field filters: none, or NotNilFilter
Filters == {"nil", "NotNilFilter"}

\* NotNilFilter on field i of object o
NotNilFilter(heap, o, i) ==
    IF FieldNames[i] = "Name" THEN TRUE ELSE heap[o][FieldNames[i]] # 0

\* a piece of output: its text t, and the number or object it carries
Piece(t, n) == [t |-> t, n |-> n]

\* an outstanding step of print: op on object obj, at field i
Work(op, obj, i, first) == [op |-> op, obj |-> obj, i |-> i, first |-> first]

\* printer.Write for one piece: a line break counts the line; a piece at the
\* start of a line is preceded by the line number and the indentation
astWrite(a, piece) ==
    IF piece.t = "\n"
    THEN [a EXCEPT !.output = Append(a.output, piece), !.line = a.line + 1, !.last = "\n"]
    ELSE IF a.last = "\n"
    THEN [a EXCEPT !.output = a.output \o <<Piece("line", a.line), Piece("indent", a.indent), piece>>,
                   !.last = piece.t]
    ELSE [a EXCEPT !.output = Append(a.output, piece), !.last = piece.t]

\* the steps that follow on the stack
astPush(a, work) == [a EXCEPT !.stack = work \o a.stack]

\* case reflect.Ptr that records the line of the next line
astPtrNextLine(a, o) ==
    IF a.ptrmap[o] >= 0
    THEN astWrite(a, Piece("(obj @ %d)", a.ptrmap[o]))
    ELSE astPush([a EXCEPT !.ptrmap[o] = a.line + 1], <<Work("struct", o, 0, TRUE)>>)

\* case reflect.Ptr of print after printf("*"): the back-reference, or the
\* entry in ptrmap and the element
astPtr(a, o) ==
    IF a.ptrmap[o] >= 0
    THEN astWrite(a, Piece("(obj @ %d)", a.ptrmap[o]))
    ELSE astPush([a EXCEPT !.ptrmap[o] = a.line], <<Work("struct", o, 0, TRUE)>>)

\* the body of the loop over the fields of case reflect.Struct for field i
astField(a, o, i, first) ==
    IF i > Len(FieldNames)
    THEN astWrite([a EXCEPT !.indent = a.indent - 1], Piece("}", o))
    ELSE IF a.filter = "nil" \/ NotNilFilter(a.heap, o, i)
    THEN astPush(astWrite(IF first THEN astWrite(a, Piece("\n", 0)) ELSE a,
                          Piece(FieldNames[i], o)),
                 <<IF FieldNames[i] = "Name" THEN Work("string", o, i, FALSE)
                   ELSE Work("ptr", a.heap[o][FieldNames[i]], 0, FALSE),
                   Work("\n", 0, 0, FALSE),
                   Work("field", o, i + 1, FALSE)>>)
    ELSE astPush(a, <<Work("field", o, i + 1, first)>>)

\* one step of print: w is the step, a the printer with w taken off the stack
astStep(a, w) ==
    CASE w.op = "ptr" /\ w.obj = 0 -> astWrite(a, Piece("nil", 0))
      [] w.op = "ptr" /\ w.obj # 0 -> astPtr(astWrite(a, Piece("*", w.obj)), w.obj)
      [] w.op = "struct" ->
            astPush(astWrite([a EXCEPT !.indent = a.indent + 1], Piece("T {", w.obj)),
                    <<Work("field", w.obj, 1, TRUE)>>)
      [] w.op = "field" -> astField(a, w.obj, w.i, w.first)
      [] w.op = "string" -> astWrite(a, Piece("%q", w.obj))
      [] w.op = "\n" -> astWrite(a, Piece("\n", 0))

\* Fprint up to the print of x: the printer set up, x a nil interface or a
\* pointer to an object
astFprint(heap, filter, x) ==
    [state |-> "running", heap |-> heap, filter |-> filter,
     stack |-> IF x = 0 THEN <<Work("nil", 0, 0, FALSE)>>
               ELSE <<Work("ptr", x, 0, FALSE), Work("\n", 0, 0, FALSE)>>,
     ptrmap |-> [o \in Objects |-> -1], indent |-> 0, last |-> "\n", line |-> 0,
     output |-> <<>>]

----------------------------------------------------------------------------
\* The indentation scanner (offside rule)

\* the columns a logical line may start in; column 1 is the base column
Columns == 1..MaxColumn

\* the stack of indentation columns at the start of a scan, its top last
BaseStack == <<1>>

\* how a logical line ends: with a token that implies a STATEMENT_END
\* ("terminated"), or with one that makes the next line a continuation
LineForms == {"terminated", "continued"}

Top(stack) == stack[Len(stack)]

\* a dedent that pops one column however deep the dedent is
popOne(sc, c) ==
    IF Len(sc.stack) > 1 /\ Top(sc.stack) > c
    THEN [sc EXCEPT !.stack = SubSeq(sc.stack, 1, Len(sc.stack) - 1),
                    !.tokens = Append(sc.tokens, "CLOSE_BLOCK")]
    ELSE sc

\* the pops of a dedent to column c: one CLOSE_BLOCK per column above c
RECURSIVE popTo(_, _)
popTo(sc, c) ==
    IF Len(sc.stack) > 1 /\ Top(sc.stack) > c
    THEN popTo([sc EXCEPT !.stack = SubSeq(sc.stack, 1, Len(sc.stack) - 1),
                          !.tokens = Append(sc.tokens, "CLOSE_BLOCK")], c)
    ELSE sc

\* the end of a dedent: the STATEMENT_END, and the lexical error of a column
\* that is not on the stack
dedentEnd(sc, c) ==
    [sc EXCEPT !.tokens = Append(sc.tokens, "STATEMENT_END"),
               !.errors = IF Top(sc.stack) = c THEN sc.errors ELSE sc.errors + 1]

\* the start of a logical line in column c
lineStart(sc, c) ==
    IF c > Top(sc.stack)
    THEN IF sc.form = "continued" THEN sc
         ELSE [sc EXCEPT !.stack = Append(sc.stack, c),
                         !.tokens = Append(sc.tokens, "OPEN_BLOCK")]
    ELSE IF c = Top(sc.stack)
    THEN sc
    ELSE dedentEnd(popTo(sc, c), c)

\* the tokens of the line and the STATEMENT_END its last token implies
lineBody(sc, form) ==
    [sc EXCEPT !.tokens = sc.tokens \o (IF form = "terminated"
                                        THEN <<"IDENT", "STATEMENT_END">>
                                        ELSE <<"IDENT", "ADD">>),
               !.form = form,
               !.lines = sc.lines + 1]

\* the record of the start of a line: sc before it, sc1 after it
logLine(sc, sc1, c) ==
    [sc1 EXCEPT !.hLine = [c |-> c, before |-> sc.stack, after |-> sc1.stack,
                           emitted |-> SubSeq(sc1.tokens, Len(sc.tokens) + 1, Len(sc1.tokens)),
                           error |-> sc1.errors > sc.errors,
                           form |-> sc.form]]

\* one logical line in column c that ends in form
scanLine(sc, c, form) == lineBody(logLine(sc, lineStart(sc, c), c), form)

\* an end of the input that leaves the open blocks open
scanEofNoPop(sc) ==
    [sc EXCEPT !.tokens = Append(sc.tokens, "STATEMENT_END"), !.state = "done"]

\* the end of the input: the pops to the base column and the final STATEMENT_END
scanEof(sc) ==
    [popTo(sc, BaseStack[1]) EXCEPT !.tokens = Append(popTo(sc, BaseStack[1]).tokens, "STATEMENT_END"),
                                     !.state = "done"]

----------------------------------------------------------------------------
\* The igo command (package main)

\* type Cmd
INVALID == 0

COMPILE == 1

PARSE == 2

BUILD == 3

\* var commands, a Go slice indexed from 0: commands[i + 1] here is commands[i]
commands == <<"", "compile", "parse", "build">>

\* the targets of cmd.To
IGO == "IGO"

GO == "GO"

\* what a conversion to a target does, as the README states it: to IGO turns
\* *.go files (curly syntax) into *.igo files (indented syntax), to GO the reverse
Conversion(target) ==
    IF target = IGO
    THEN [from |-> "curly", to |-> "indented"]
    ELSE [from |-> "indented", to |-> "curly"]

\* the first index at which commands holds c, or Cmd(0)
toCmd(c) ==
    LET hits == {i \in 1..Len(commands) : commands[i] = c}
    IN IF hits = {} THEN INVALID
       ELSE (CHOOSE i \in hits : \A j \in hits : i <= j) - 1

\* arguments that set a flag the command defines (-comments, -dest, -tabs,
\* -tabwidth), here in the one-word form -name=value
DefinedFlags == {"-tabs=false"}

\* arguments the flag package takes for a flag that is not defined, or for help
FlagWords == {"-x", "-h"}

\* flag.Parse with flag.Usage = usage: leading flags are consumed, a "--"
\* ends them and is removed, an undefined flag is an error (or a request for
\* help) that calls usage, anything else ends the flags
RECURSIVE flagParse(_)
flagParse(args) ==
    IF args # <<>> /\ Head(args) \in DefinedFlags
    THEN flagParse(Tail(args))
    ELSE IF args # <<>> /\ Head(args) \in FlagWords
    THEN [failed |-> TRUE, rest |-> <<>>,
          stderr |-> IF Head(args) = "-h" THEN <<"usage">> ELSE <<"flag provided but not defined", "usage">>]
    ELSE IF args # <<>> /\ Head(args) = "--"
    THEN [failed |-> FALSE, rest |-> Tail(args), stderr |-> <<>>]
    ELSE [failed |-> FALSE, rest |-> args, stderr |-> <<>>]

\* the loop over flag.Arg(i)
RECURSIVE argLoopFirst(_, _, _, _)
argLoopFirst(rest, i, command, paths) ==
    IF i > Len(rest) THEN [command |-> command, paths |-> paths]
    ELSE IF toCmd(rest[i]) > 0
    THEN argLoopFirst(rest, i + 1, IF command = INVALID THEN toCmd(rest[i]) ELSE command, paths)
    ELSE argLoopFirst(rest, i + 1, command, Append(paths, rest[i]))

RECURSIVE argLoop(_, _, _, _)
argLoop(rest, i, command, paths) ==
    IF i > Len(rest) THEN [command |-> command, paths |-> paths]
    ELSE IF toCmd(rest[i]) > 0
    THEN argLoop(rest, i + 1, toCmd(rest[i]), paths)
    ELSE argLoop(rest, i + 1, command, Append(paths, rest[i]))

\* usage(): the synopsis, then os.Exit(2)
usage(c) ==
    [c EXCEPT !.state = "exited", !.stderr = c.stderr \o <<"usage">>, !.exitCode = 2]

\* exitCode = cmd.To(target, paths), then os.Exit(exitCode)
convert(c, target, code) ==
    [c EXCEPT !.state = "exited",
              !.ran = Append(c.ran, [target |-> target, paths |-> c.paths, code |-> code]),
              !.exitCode = code]

\* switch command, with the selection of the run: what cmd.To returns is code
mainSwitchSwapped(c, code) ==
    IF c.command = PARSE THEN convert(c, GO, code)
    ELSE IF c.command = COMPILE THEN convert(c, IGO, code)
    ELSE usage([c EXCEPT !.stderr = c.stderr \o <<"Invalid command">>])

mainSwitch(c, code) ==
    IF c.command = PARSE THEN convert(c, IGO, code)
    ELSE IF c.command = COMPILE THEN convert(c, GO, code)
    ELSE usage([c EXCEPT !.stderr = c.stderr \o <<"Invalid command">>])

selected(c, sel) ==
    [c EXCEPT !.command = sel.command, !.paths = sel.paths]

\* func main
mainRun(c, code) ==
    IF flagParse(c.args).failed
    THEN [c EXCEPT !.state = "exited", !.stderr = flagParse(c.args).stderr, !.exitCode = 2]
    ELSE mainSwitch(selected(c, argLoop(flagParse(c.args).rest, 1, INVALID, <<>>)), code)

\* the words of a command line
Words == {"parse", "compile", "build", "a", "", "--"} \cup DefinedFlags \cup FlagWords

\* the command lines
ArgLists == UNION {[1..k -> Words] : k \in 0..MaxArgs}

\* the exit codes of a conversion
ExitCodes == {0, 1, 2}

----------------------------------------------------------------------------
\* The emission as a state machine

IdlePrinter == initPrinter(FALSE, 0, <<>>)

IdleTrimmer == [state |-> "inSpace", space |-> <<>>]

IdleWriter == [bytes |-> <<>>, hChunks |-> <<>>, hFailed |-> 0, hLate |-> 0, err |-> 0]

IdleFprint == [node |-> NoNode, state |-> "idle", err |-> FALSE]

IdleCli ==
    [state |-> "idle", args |-> <<>>, command |-> INVALID, paths |-> <<>>,
     ran |-> <<>>, stderr |-> <<>>, exitCode |-> 0]

IdleAst ==
    [state |-> "idle", heap |-> <<>>, filter |-> "nil", stack |-> <<>>,
     ptrmap |-> <<>>, indent |-> 0, last |-> "\n", line |-> 0, output |-> <<>>]

IdleScan ==
    [state |-> "idle", stack |-> <<>>, tokens |-> <<>>, lines |-> 0, form |-> "none",
     errors |-> 0, hLine |-> <<>>]

IdleWw ==
    [state |-> "idle", q |-> IdlePrinter, i |-> 0, n |-> 0, buf |-> <<>>, depth |-> 0,
     log |-> <<>>]

IdleLine == [state |-> "idle", q |-> IdlePrinter, q0 |-> IdlePrinter, pos |-> NoPosition]

OthersIdle ==
    /\ raw = <<>>
    /\ fp = IdleFprint
    /\ cli = IdleCli
    /\ ap = IdleAst
    /\ lex = IdleScan
    /\ ww = IdleWw
    /\ lb = IdleLine

EmitterIdle ==
    /\ p = IdlePrinter
    /\ pc = "idle"
    /\ calls = 0
    /\ walk = "none"
    /\ tr = IdleTrimmer
    /\ wr = IdleWriter
    /\ fed = 0

\* a layout walk over a file with comments
Init ==
    /\ \E sp \in BOOLEAN, cl \in CommentLists :
          p = nextComment(initPrinter(sp, 0, cl))
    /\ pc = "print"
    /\ calls = 0
    /\ walk = "layout"
    /\ tr = IdleTrimmer
    /\ wr = IdleWriter
    /\ fed = 0
    /\ OthersIdle

\* an operator walk
InitOps ==
    /\ \E cl \in OpCommentLists : p = nextComment(initPrinter(FALSE, 0, cl))
    /\ pc = "print"
    /\ calls = 0
    /\ walk = "ops"
    /\ tr = IdleTrimmer
    /\ wr = IdleWriter
    /\ fed = 0
    /\ OthersIdle

\* a layout walk over a file with a line directive
InitDirective ==
    /\ \E sp \in BOOLEAN, cl \in DirectiveLists :
          p = nextComment(initPrinter(sp, 0, cl))
    /\ pc = "print"
    /\ calls = 0
    /\ walk = "layout"
    /\ tr = IdleTrimmer
    /\ wr = IdleWriter
    /\ fed = 0
    /\ OthersIdle

\* a walk of whitespace items whose first print call has filled the buffer
InitFull ==
    /\ \E args \in Fillers : p = print(nextComment(initPrinter(FALSE, 0, <<>>)), args)
    /\ pc = "print"
    /\ calls = 1
    /\ walk = "ws"
    /\ tr = IdleTrimmer
    /\ wr = IdleWriter
    /\ fed = 0
    /\ OthersIdle

\* the raw buffer is complete: Config.fprint has set up the trimmer
InitTrim ==
    /\ p = IdlePrinter
    /\ pc = "write"
    /\ calls = 0
    /\ walk = "none"
    /\ tr = IdleTrimmer
    /\ wr = IdleWriter
    /\ fed = 0
    /\ OthersIdle

\* the tree walk calls p.print(args...)
WalkPrint ==
    /\ pc = "print"
    /\ ~p.panicked
    /\ calls < MaxCalls
    /\ \E args \in Args(p, walk) : p' = print(p, args)
    /\ calls' = calls + 1
    /\ UNCHANGED <<pc, walk, tr, wr, fed>>
    /\ UNCHANGED others

\* printNode has returned: Config.fprint flushes the outstanding comments
Finish ==
    /\ pc = "print"
    /\ ~p.panicked
    /\ p' = eofFlush(p)
    /\ pc' = "done"
    /\ UNCHANGED <<calls, walk, tr, wr, fed>>
    /\ UNCHANGED others

\* the next part of the raw buffer reaches trimmer.Write (the whole buffer
\* at once under RawFormat, the tabwriter's cells otherwise); Config.fprint
\* returns the error of a failed Write
TrimWrite ==
    /\ pc = "write"
    /\ fed < MaxFed
    /\ \E data \in Chunks(MaxFed - fed), fails \in FailSets :
          LET r == trimmerWrite(tr, wr, data, fails)
          IN /\ tr' = r.tr
             /\ wr' = [r.w EXCEPT !.err = r.err]
             /\ fed' = fed + Len(data)
             /\ pc' = IF r.err # 0 THEN "done" ELSE "write"
    /\ UNCHANGED <<p, calls, walk>>
    /\ UNCHANGED others

\* the raw buffer is written out: Config.fprint returns
TrimDone ==
    /\ pc = "write"
    /\ pc' = "done"
    /\ UNCHANGED <<p, calls, walk, tr, wr, fed>>
    /\ UNCHANGED others

Next == WalkPrint \/ Finish

NextTrim == TrimWrite \/ TrimDone

Spec == Init /\ [][Next]_vars

SpecOps == InitOps /\ [][Next]_vars

SpecTrim == InitTrim /\ [][NextTrim]_vars

SpecDirective == InitDirective /\ [][Next]_vars

SpecFull == InitFull /\ [][Next]_vars

\* the raw buffer is complete and reaches the trimmer in one Write
InitWhole ==
    /\ p = IdlePrinter
    /\ pc = "write"
    /\ calls = 0
    /\ walk = "whole"
    /\ tr = IdleTrimmer
    /\ wr = IdleWriter
    /\ fed = 0
    /\ OthersIdle

\* output.Write(p.output) under RawFormat: one trimmer.Write, no write fails
TrimWhole ==
    /\ pc = "write"
    /\ walk = "whole"
    /\ \E data \in Balanced(MaxFed) :
          LET r == trimmerWrite(tr, wr, data, {})
          IN /\ tr' = r.tr
             /\ wr' = r.w
             /\ fed' = Len(data)
             /\ raw' = data
    /\ pc' = "done"
    /\ UNCHANGED <<p, calls, walk, fp, cli, ap, lex, ww, lb>>

NextWhole == TrimWhole

SpecWhole == InitWhole /\ [][NextWhole]_vars

\* Config.Fprint is called with a node
InitFprint ==
    /\ EmitterIdle
    /\ raw = <<>>
    /\ \E n \in Nodes : fp = [node |-> n, state |-> "called", err |-> FALSE]
    /\ cli = IdleCli
    /\ ap = IdleAst
    /\ lex = IdleScan
    /\ ww = IdleWw
    /\ lb = IdleLine

\* Config.fprint: p.init and p.printNode up to the walk; an error returns
PrintNode ==
    /\ fp.state = "called"
    /\ \E cl \in NodeComments(fp.node) :
          LET r == printNode(IdlePrinter, fp.node, cl)
          IN /\ p' = r.p
             /\ fp' = [fp EXCEPT !.state = IF r.err THEN "returned" ELSE "printing",
                                 !.err = r.err]
             /\ pc' = IF r.err THEN "done" ELSE "print"
    /\ walk' = "node"
    /\ UNCHANGED <<calls, tr, wr, fed, raw, cli, ap, lex, ww, lb>>

\* Config.fprint writes the printer's result through the trimmer (RawFormat)
\* and returns
FprintWrite ==
    /\ fp.state = "printing"
    /\ pc = "done"
    /\ LET r == trimmerWrite(IdleTrimmer, wr, p.output, {})
       IN /\ tr' = r.tr
          /\ wr' = r.w
    /\ raw' = p.output
    /\ fp' = [fp EXCEPT !.state = "returned"]
    /\ UNCHANGED <<p, pc, calls, walk, fed, cli, ap, lex, ww, lb>>

NextFprint == PrintNode \/ WalkPrint \/ Finish \/ FprintWrite

SpecFprint == InitFprint /\ [][NextFprint]_vars

\* ast.Fprint is called with a graph of objects
InitAst ==
    /\ EmitterIdle
    /\ raw = <<>>
    /\ fp = IdleFprint
    /\ cli = IdleCli
    /\ \E heap \in Heaps, filter \in Filters, x \in {0, 1} : ap = astFprint(heap, filter, x)
    /\ lex = IdleScan
    /\ ww = IdleWw
    /\ lb = IdleLine

\* the next step of print; Fprint on a nil x prints nil and a line break
AstStep ==
    /\ ap.state = "running"
    /\ ap.stack # <<>>
    /\ ap' = IF Head(ap.stack).op = "nil"
             THEN astWrite(astWrite([ap EXCEPT !.stack = <<>>], Piece("nil", 0)), Piece("\n", 0))
             ELSE astStep([ap EXCEPT !.stack = Tail(ap.stack)], Head(ap.stack))
    /\ UNCHANGED <<emitter, raw, fp, cli, lex, ww, lb>>

\* Fprint returns
AstReturn ==
    /\ ap.state = "running"
    /\ ap.stack = <<>>
    /\ ap' = [ap EXCEPT !.state = "done"]
    /\ UNCHANGED <<emitter, raw, fp, cli, lex, ww, lb>>

NextAst == AstStep \/ AstReturn

\* a call that has been made runs on
SpecAst == InitAst /\ [][NextAst]_vars /\ WF_vars(AstStep) /\ WF_vars(AstReturn)

\* an offside scan starts
InitScan ==
    /\ EmitterIdle
    /\ raw = <<>>
    /\ fp = IdleFprint
    /\ cli = IdleCli
    /\ ap = IdleAst
    /\ lex = [IdleScan EXCEPT !.state = "scanning", !.stack = BaseStack]
    /\ ww = IdleWw
    /\ lb = IdleLine

\* the scanner reads the next logical line
ScanLine ==
    /\ lex.state = "scanning"
    /\ lex.lines < MaxLines
    /\ \E c \in Columns, form \in LineForms : lex' = scanLine(lex, c, form)
    /\ UNCHANGED <<emitter, raw, fp, cli, ap, ww, lb>>

\* the scanner reaches the end of the input
ScanEof ==
    /\ lex.state = "scanning"
    /\ lex' = scanEof(lex)
    /\ UNCHANGED <<emitter, raw, fp, cli, ap, ww, lb>>

NextScan == ScanLine \/ ScanEof

SpecScan == InitScan /\ [][NextScan]_vars

\* the igo command is started with a command line
InitCli ==
    /\ EmitterIdle
    /\ raw = <<>>
    /\ fp = IdleFprint
    /\ \E a \in ArgLists : cli = [IdleCli EXCEPT !.state = "started", !.args = a]
    /\ ap = IdleAst
    /\ lex = IdleScan
    /\ ww = IdleWw
    /\ lb = IdleLine

\* func main runs to os.Exit
Main ==
    /\ cli.state = "started"
    /\ \E code \in ExitCodes : cli' = mainRun(cli, code)
    /\ UNCHANGED <<emitter, raw, fp, ap, lex, ww, lb>>

NextCli == Main

SpecCli == InitCli /\ [][NextCli]_vars

\* the values an entry of the whitespace buffer may hold
WsEntries == WhiteSpaces \cup {ignore}

\* the whitespace buffers of at most m entries
Buffers(m) == UNION {[1..k -> WsEntries] : k \in 1..m}

\* writeWhitespace(n) is called on a printer at the start of an output line
InitWw ==
    /\ EmitterIdle
    /\ raw = <<>>
    /\ fp = IdleFprint
    /\ cli = IdleCli
    /\ ap = IdleAst
    /\ lex = IdleScan
    /\ lb = IdleLine
    /\ \E buf \in Buffers(MaxWs), d \in {0, 2} :
          \E n \in 0..Len(buf) :
              ww = [state |-> "loop",
                    q |-> [IdlePrinter EXCEPT !.wsbuf = buf, !.indent = d],
                    i |-> 1, n |-> n, buf |-> buf, depth |-> d, log |-> <<>>]

\* the bytes an iteration wrote are recorded with the index of the entry and
\* the indentation depth before the iteration
wwLog(w, r) ==
    [w EXCEPT !.q = r.q, !.i = r.i,
              !.log = IF Len(r.q.output) > Len(w.q.output)
                      THEN Append(w.log,
                                  [i |-> w.i, depth |-> w.q.indent,
                                   byte |-> r.q.output[Len(r.q.output)]])
                      ELSE w.log]

\* one iteration of the loop of writeWhitespace
WwIterate ==
    /\ ww.state = "loop"
    /\ ww.i <= ww.n
    /\ ww' = wwLog(ww, wwStep(ww.q, ww.i, ww.n))
    /\ UNCHANGED <<emitter, raw, fp, cli, ap, lex, lb>>

\* the loop has ended: the remaining entries are shifted down
WwShift ==
    /\ ww.state = "loop"
    /\ ww.i > ww.n
    /\ ww' = [ww EXCEPT !.q = shiftWhitespace(ww.q, ww.n), !.state = "done"]
    /\ UNCHANGED <<emitter, raw, fp, cli, ap, lex, lb>>

NextWw == WwIterate \/ WwShift

\* the call runs on: nothing suspends the loop
SpecWw == InitWw /\ [][NextWw]_vars /\ WF_vars(NextWw)

\* the file names a position may carry
FileNames == {SrcFile, <<"f">>}

\* the positions of the output space before a write
OutPositions ==
    {Position(f, 0, l, c) : f \in FileNames \cup {<<>>}, l \in 1..2, c \in 1..2}

\* the source positions of an item: valid ones, and the zero position
ItemPositions == {Position(f, 0, l, 1) : f \in FileNames, l \in 1..2} \cup {NoPosition}

\* writeByte or writeString is called for an item at position lb.pos
InitLine ==
    /\ EmitterIdle
    /\ raw = <<>>
    /\ fp = IdleFprint
    /\ cli = IdleCli
    /\ ap = IdleAst
    /\ lex = IdleScan
    /\ ww = IdleWw
    /\ \E sp \in BOOLEAN, o \in OutPositions, at \in ItemPositions, d \in 0..1 :
          lb = [state |-> "called",
                q |-> [initPrinter(sp, 0, <<>>) EXCEPT !.out = o, !.indent = d],
                q0 |-> [initPrinter(sp, 0, <<>>) EXCEPT !.out = o, !.indent = d],
                pos |-> at]

\* the line-begin check of writeByte and of writeString
LineBegin ==
    /\ lb.state = "called"
    /\ lb' = [lb EXCEPT !.state = "begun",
                        !.q = IF lb.q.out.Column = 1 THEN atLineBegin(lb.q, lb.pos)
                              ELSE lb.q]
    /\ UNCHANGED <<emitter, raw, fp, cli, ap, lex, ww>>

\* the bytes of the item are written
LinePut ==
    /\ lb.state = "begun"
    /\ \/ \E ch \in {" ", "\n"} : lb' = [lb EXCEPT !.state = "done", !.q = putByte(lb.q, ch, 1)]
       \/ lb' = [lb EXCEPT !.state = "done", !.q = placeString(lb.q, lb.pos, <<"x">>, FALSE)]
    /\ UNCHANGED <<emitter, raw, fp, cli, ap, lex, ww>>

NextLine == LineBegin \/ LinePut

SpecLine == InitLine /\ [][NextLine]_vars

\* the raw buffer is complete and reaches the trimmer in parts
InitSplit ==
    /\ p = IdlePrinter
    /\ pc = "write"
    /\ calls = 0
    /\ walk = "split"
    /\ tr = IdleTrimmer
    /\ wr = IdleWriter
    /\ fed = 0
    /\ raw \in Balanced(MaxFed)
    /\ fp = IdleFprint
    /\ cli = IdleCli
    /\ ap = IdleAst
    /\ lex = IdleScan
    /\ ww = IdleWw
    /\ lb = IdleLine

\* the next part of the raw buffer reaches trimmer.Write; no write fails
TrimPart ==
    /\ pc = "write"
    /\ walk = "split"
    /\ \E k \in 1..(Len(raw) - fed) :
          LET r == trimmerWrite(tr, wr, SubSeq(raw, fed + 1, fed + k), {})
          IN /\ tr' = r.tr
             /\ wr' = [r.w EXCEPT !.err = r.err]
             /\ fed' = fed + k
    /\ UNCHANGED <<p, pc, calls, walk>>
    /\ UNCHANGED others

\* the last part has been written
TrimEnd ==
    /\ pc = "write"
    /\ walk = "split"
    /\ fed = Len(raw)
    /\ pc' = "done"
    /\ UNCHANGED <<p, calls, walk, tr, wr, fed>>
    /\ UNCHANGED others

NextSplit == TrimPart \/ TrimEnd

SpecSplit == InitSplit /\ [][NextSplit]_vars

----------------------------------------------------------------------------
\* Properties

\* print has written at least one item with data
Written == p.hItems > 0

\* the bytes print wrote for the last item before the item's own bytes
PreData ==
    SubSeq(p.output, p.hStep.outBefore + 1,
           p.hStep.outAfter - Len(p.hStep.data) - (IF p.hStep.isLit THEN 2 ELSE 0))

\* no comment was interspersed before the last item
NoCommentBefore == p.hStep.cmtsAfter = p.hStep.cmtsBefore

\* the pairs (previous token, next byte) of the token-combination table
CombineTable ==
    {<<"INT", ".">>, <<"ADD", "+">>, <<"SUB", "-">>, <<"QUO", "*">>,
     <<"LSS", "-">>, <<"LSS", "<">>, <<"AND", "&">>, <<"AND", "^">>}

InTable == <<p.hStep.prevTok, p.hStep.data[1]>> \in CombineTable

Count(seq, S) == Cardinality({i \in 1..Len(seq) : seq[i] \in S})

\* C1 as stated: after INT, ADD, SUB, QUO, LSS, AND an item of any kind
\* that is written next (nothing, no comment either, in between) and begins
\* with the byte of the table is preceded by exactly one blank, and for
\* every other pair no blank is forced.
C1_AnyItemGuarded ==
    (Written /\ NoCommentBefore) =>
        IF InTable THEN Count(PreData, {" "}) = 1 ELSE PreData = p.hStep.wsBefore

\* C1, amended: the guard applies when the next item is a token and no
\* comment is interspersed before it: then exactly one blank separates the
\* pair iff it is in the table; an identifier, literal or string item is
\* never guarded.
C1_TokenGuarded ==
    (Written /\ NoCommentBefore) =>
        PreData = IF p.hStep.kind = "tok" /\ InTable THEN <<" ">> ELSE p.hStep.wsBefore

\* INT(1), '.', IDENT(x) is in the raw buffer as 1 .x
C1_Witness ==
    /\ Written /\ p.hStep.kind = "ident"
    /\ p.output = <<Escape, "1", Escape, " ", ".", "x">>

\* the comments of a comment list, in list order
RECURSIVE Flatten(_)
Flatten(cl) == IF Len(cl) = 0 THEN <<>> ELSE Head(cl) \o Flatten(Tail(cl))

AllComments == Flatten(p.comments)

\* seq has sub as a contiguous part
HasInfix(seq, sub) ==
    \E i \in 0..(Len(seq) - Len(sub)) : SubSeq(seq, i + 1, i + Len(sub)) = sub

DataStart ==
    p.hStep.outAfter - Len(p.hStep.data) - (IF p.hStep.isLit THEN 2 ELSE 0)

\* number of line-break bytes of seq outside its escaped regions
RECURSIVE BreaksOutside(_, _)
BreaksOutside(seq, inEsc) ==
    IF Len(seq) = 0 THEN 0
    ELSE IF Head(seq) = Escape THEN BreaksOutside(Tail(seq), ~inEsc)
    ELSE (IF ~inEsc /\ Head(seq) \in {"\n", "\f"} THEN 1 ELSE 0)
            + BreaksOutside(Tail(seq), inEsc)

\* the line breaks print inserted before the last item, after its flush
Inserted == BreaksOutside(SubSeq(p.output, p.hStep.outFlushed + 1, DataStart), FALSE)

\* source lines between the previously written item and the last item
SourceGap == p.hStep.next.Line - p.hStep.lastFlushed.Line

\* C4 as stated: print inserts min(gap, 2) line breaks before a token, gap
\* the number of source lines between the previously written item and it
\* (taken where no comment is interspersed and no whitespace is pending, so
\* that the line breaks counted are all there are between the two items).
C4_MinOfGap ==
    (/\ Written /\ IsValid(p.hStep.lastBefore) /\ SourceGap >= 0
     /\ p.hStep.cmtsAfter = p.hStep.cmtsBefore /\ p.hStep.wsBefore = <<>>) =>
        Inserted = Min(SourceGap, 2)

\* lines from the emitter's position after the flush to the item
FlushGap == p.hStep.next.Line - p.hStep.posFlushed.Line

\* C4, amended: print inserts no line break while impliedSemi is set;
\* otherwise it inserts min(d, 2) of them (none if d < 0), d the number of
\* lines from the emitter's position after the flush to the item, and one
\* less when that makes 2 and the flush wrote a line break; never more
\* than maxNewlines.
C4_InsertedBreaks ==
    Written =>
        /\ Inserted <= maxNewlines
        /\ Inserted =
              IF p.hStep.semiBefore \/ FlushGap <= 0 THEN 0
              ELSE IF p.hStep.wroteNewline /\ FlushGap >= 2 THEN 1
              ELSE Min(FlushGap, 2)

\* a gap of more than two lines is cut to two line breaks
C4_Witness ==
    Written /\ ~p.hStep.semiBefore /\ FlushGap > 2 /\ Inserted = 2

\* C5 as stated: an UNINDENT that would make the depth negative aborts
\* the conversion with a diagnostic.
C5_UnderflowAborts == p.hUnderflow > 0 => p.panicked

\* C5, amended: an UNINDENT that would make the depth negative resets the
\* depth to 0 and the emission goes on (the diagnostic and the panic exist
\* only in a build with debug set); the depth is never negative.
C5_UnderflowResets ==
    /\ p.indent >= 0
    /\ p.hUnderflow > 0 => ~p.panicked

\* an emission that ran to its end after an underflow
C5_Witness == p.hUnderflow > 0 /\ Written /\ pc = "done" /\ p.indent = 0

\* the index in AllComments of the first comment of group g of the list
RECURSIVE FirstIndex(_, _)
FirstIndex(cl, g) == IF g = 1 THEN 1 ELSE Len(cl[g - 1]) + FirstIndex(cl, g - 1)

\* the groups not yet written when the last item was written
PendingGroups ==
    {g \in 1..Len(p.comments) :
        Len(p.comments[g]) > 0 /\ FirstIndex(p.comments, g) > p.hStep.cmtsAfter}

GroupOffset(g) == posFor(p.comments[g][1].pos).Offset

EndOffset(c) == posFor(c.pos).Offset + Len(c.text)

\* C7 as stated: when a token is written no unwritten comment ends before
\* the token's position.
C7_NoneDeferred ==
    Written =>
        \A i \in (p.hStep.cmtsAfter + 1)..Len(AllComments) :
            ~(IsValid(posFor(AllComments[i].pos))
                /\ EndOffset(AllComments[i]) <= p.hStep.next.Offset)

\* C7, amended: when a token is written every comment group still pending
\* starts at or after the token's offset, unless impliedSemi was set and
\* the first pending group contains a newline: that group and the groups
\* after it stay pending.
C7_DeferredOnlyForSemi ==
    Written =>
        \A g \in PendingGroups :
            \/ GroupOffset(g) >= p.hStep.next.Offset
            \/ /\ p.hStep.semiBefore
               /\ commentsHaveNewline(
                     p.comments[CHOOSE f \in PendingGroups : \A h \in PendingGroups : f <= h])

\* a comment group that lies before the token was held back
C7_Witness ==
    /\ Written
    /\ \E g \in PendingGroups : GroupOffset(g) < p.hStep.next.Offset
    /\ p.hStep.kind = "tok"

\* C8: after the last interspersed line-style comment a line break is
\* written before the next token, except before a closing brace under
\* noExtraLinebreak and at end of file.
C8_BreakAfterLineComment ==
    (/\ Written
     /\ p.hStep.cmtsAfter > p.hStep.cmtsBefore
     /\ p.hStep.tok # "LBRACE"
     /\ ~(p.hStep.tok = "RBRACE" /\ p.hStep.mode % 2 = 1)) =>
        \E i \in (p.hClog[p.hStep.cmtsAfter].outEnd + 1)..DataStart :
            p.output[i] \in {"\n", "\f"}

\* the comments that writeCommentPrefix was called for with a non-empty output
Prefixed == {i \in 1..Len(p.hClog) : p.hClog[i].tok # "LBRACE" /\ ~p.hClog[i].outEmpty}

\* the line breaks writeCommentPrefix wrote before comment i
PrefixBreaks(i) == BreaksOutside(p.hClog[i].prefixBytes, FALSE)

Dropped(i) ==
    Count(p.hClog[i].wsBefore, LineBreaks) > Count(p.hClog[i].wsPrefix, LineBreaks)

OtherFile(i) ==
    IsValid(p.hClog[i].cpos) /\ p.hClog[i].cpos.Filename # p.hClog[i].lastBefore.Filename

LineGap(i) ==
    IF IsValid(p.hClog[i].cpos) /\ IsValid(p.hClog[i].lastBefore)
         /\ p.hClog[i].cpos.Line > p.hClog[i].lastBefore.Line
    THEN p.hClog[i].cpos.Line - p.hClog[i].lastBefore.Line
    ELSE 0

ExtraBreak(i) ==
    IF p.hClog[i].indentPrefix = 0 /\ ~p.hClog[i].hasPrev /\ Dropped(i) THEN 1 ELSE 0

DirFile == <<"f">>

DirLine == digitsVal(<<"2">>)

DirectivePosition(i) ==
    /\ p.hClog[i].posAfter.Filename = DirFile
    /\ p.hClog[i].posAfter.Line = DirLine
    /\ p.hClog[i].posAfter.Column = 1
    /\ p.hClog[i].indentAfter = p.hClog[i].indentPrefix
    /\ "\t" \notin {p.hClog[i].textBytes[k] : k \in 1..Len(p.hClog[i].textBytes)}

\* C10 as stated: a comment with the directive prefix in column 1 sets the
\* AST-space position to file:N column 1 and leaves the depth as it was;
\* after every other comment the position is the one writing the text left.
C10_DirectiveInColumn1 ==
    \A i \in 1..Len(p.hClog) :
        IF HasPrefix(p.hClog[i].text, linePrefix) /\ p.hClog[i].cpos.Column = 1
        THEN DirectivePosition(i)
        ELSE p.hClog[i].posAfter = p.hClog[i].lastAfter

\* C10, amended: the same, for a comment with the directive prefix that
\* sits in column 1 or has no valid position.
C10_DirectiveSetsPosition ==
    \A i \in 1..Len(p.hClog) :
        IF /\ HasPrefix(p.hClog[i].text, linePrefix)
           /\ (p.hClog[i].cpos.Column = 1 \/ ~IsValid(p.hClog[i].cpos))
        THEN DirectivePosition(i)
        ELSE p.hClog[i].posAfter = p.hClog[i].lastAfter

\* a directive written at the start of a line at depth 1
C10_Witness ==
    \E i \in 1..Len(p.hClog) :
        /\ HasPrefix(p.hClog[i].text, linePrefix) /\ p.hClog[i].cpos.Column = 1
        /\ p.hClog[i].indentPrefix = 1
        /\ p.hClog[i].posAfter.Line = DirLine

\* the bytes that reached the writer, each escaped region as one Escape byte
RECURSIVE Marked(_)
Marked(chunks) ==
    IF Len(chunks) = 0 THEN <<>>
    ELSE (IF Head(chunks).kind = "esc" THEN <<Escape>> ELSE Head(chunks).bytes)
            \o Marked(Tail(chunks))

\* no blank or tab of seq stands before a line break or at the end
NoTrailingSpace(seq) ==
    \A i \in 1..Len(seq) :
        seq[i] \in {" ", "\t"} => (i < Len(seq) /\ seq[i + 1] # "\n")

C6_ErrorsShortCircuit ==
    wr.hFailed > 0 => (wr.hLate = 0 /\ wr.err # 0)

\* C11: a comment whose text is the line directive //line foo.src:42, in
\* column 1, is written to the output byte for byte as it is in the source
C11_DirectiveVerbatim ==
    \A i \in 1..Len(p.hClog) :
        p.hClog[i].text = FooDirective
        => \E k \in 0..(Len(p.hClog[i].textBytes) - Len(FooDirective)) :
              /\ Take(Drop(p.hClog[i].textBytes, k), Len(FooDirective)) = FooDirective
              /\ \A j \in 1..k : p.hClog[i].textBytes[j] \in {Escape, " "}
              /\ \A j \in (k + Len(FooDirective) + 1)..Len(p.hClog[i].textBytes) :
                    p.hClog[i].textBytes[j] \in {Escape, " "}

\* the words that name a command
CommandWords == {"compile", "parse", "build"}

\* the last word of a command line that names a command, "" if none does
LastCommandWord(a) ==
    LET at == {i \in 1..Len(a) : a[i] \in CommandWords}
    IN IF at = {} THEN "" ELSE a[CHOOSE i \in at : \A j \in at : j <= i]

IsPathWord(w) == w \notin CommandWords

\* the words of a command line that name no command, in order
PathsOf(a) == SelectSeq(a, IsPathWord)

\* the command line without its leading flags
RECURSIVE AfterFlags(_)
AfterFlags(a) ==
    IF a # <<>> /\ Head(a) \in DefinedFlags THEN AfterFlags(Tail(a)) ELSE a

\* the flags of the command line end with one that is not defined
FlagFirst(a) == AfterFlags(a) # <<>> /\ Head(AfterFlags(a)) \in FlagWords

\* the arguments left when the flags are parsed
Positional(a) ==
    IF AfterFlags(a) # <<>> /\ Head(AfterFlags(a)) = "--"
    THEN Tail(AfterFlags(a))
    ELSE AfterFlags(a)

\* the run made exactly one conversion, in the given direction, on the paths
\* of the command line, and exited with its code
Converted(from, to) ==
    /\ Len(cli.ran) = 1
    /\ Conversion(cli.ran[1].target) = [from |-> from, to |-> to]
    /\ cli.ran[1].paths = PathsOf(Positional(cli.args))

\* C12 as stated: parse runs the indented-to-curly conversion on the given
\* paths and compile the curly-to-indented conversion
C12_ParseToCurly ==
    (cli.state = "exited" /\ ~FlagFirst(cli.args))
    => /\ LastCommandWord(Positional(cli.args)) = "parse" => Converted("indented", "curly")
       /\ LastCommandWord(Positional(cli.args)) = "compile" => Converted("curly", "indented")

\* C12 as amended: parse runs the curly-to-indented conversion (cmd.To(cmd.IGO))
\* on the given paths and compile the indented-to-curly conversion (cmd.To(cmd.GO))
C12_ParseToIndented ==
    (cli.state = "exited" /\ ~FlagFirst(cli.args))
    => /\ LastCommandWord(Positional(cli.args)) = "parse" => Converted("curly", "indented")
       /\ LastCommandWord(Positional(cli.args)) = "compile" => Converted("indented", "curly")

C12_Witness ==
    /\ cli.state = "exited"
    /\ cli.args = <<"parse", "a">>
    /\ cli.ran = <<[target |-> IGO, paths |-> <<"a">>, code |-> 0]>>

\* the synopsis is printed, the exit code is 2 and nothing is converted
UsageExit ==
    /\ cli.exitCode = 2
    /\ cli.ran = <<>>
    /\ cli.stderr # <<>>
    /\ cli.stderr[Len(cli.stderr)] = "usage"

\* what C13 says of a run on the words a
SelectsLast(a) ==
    IF LastCommandWord(a) \notin {"parse", "compile"}
    THEN UsageExit
    ELSE /\ Len(cli.ran) = 1
         /\ cli.ran[1].target = (IF LastCommandWord(a) = "parse" THEN IGO ELSE GO)
         /\ cli.ran[1].paths = PathsOf(a)
         /\ cli.exitCode = cli.ran[1].code

\* C13 as stated: for every argument list the command is the last argument
\* that names a command and every other argument is a path, in order; without
\* parse or compile the synopsis is printed and the exit code is 2 with no
\* conversion, otherwise the exit code is the one the conversion returns
C13_EveryArgumentList == cli.state = "exited" => SelectsLast(cli.args)

\* C13 as amended: that holds of the arguments that flag.Parse leaves (the
\* leading flags and a "--" after them removed); a command line whose leading
\* flags end with an undefined one prints the synopsis and exits with code 2
\* without converting
C13_AfterFlags ==
    cli.state = "exited"
    => IF FlagFirst(cli.args) THEN UsageExit ELSE SelectsLast(Positional(cli.args))

C13_Witness ==
    /\ cli.state = "exited"
    /\ cli.args = <<"parse", "a", "compile">>
    /\ cli.ran = <<[target |-> GO, paths |-> <<"a">>, code |-> 1]>>
    /\ cli.exitCode = 1

\* the kinds of node the documentation of Fprint names
SupportedKinds == {"file", "decl", "stmt", "labeledStmt", "expr", "spec", "declList", "stmtList", "labeledStmtList"}

ListKinds == {"declList", "stmtList", "labeledStmtList"}

\* the node is none of the supported kinds, or a list inside a CommentedNode
\* with a non-nil comment list
Unsupported(node) ==
    \/ node.kind \notin SupportedKinds
    \/ node.kind \in ListKinds /\ node.wrapped /\ node.comments # "nil"

\* C14: Config.Fprint called with a node that is not of a supported kind
\* returns an error and writes no bytes to the output writer; a CommentedNode
\* with a non-nil comment list around a statement list or declaration list
\* is reported as unsupported
C14_UnsupportedNode ==
    (fp.state \in {"printing", "returned"} /\ Unsupported(fp.node))
    => /\ fp.state = "returned"
       /\ fp.err
       /\ wr.bytes = <<>>
       /\ wr.hChunks = <<>>
       /\ p.output = <<>>

C14_Witness ==
    /\ fp.state = "returned"
    /\ fp.node = Node("stmtList", TRUE, "some")
    /\ fp.err
    /\ wr.bytes = <<>>

\* what the trimmer makes of a byte outside the escaped regions
TrimmedByte(b) == IF b = "\f" THEN "\n" ELSE IF b = "VT" THEN "\t" ELSE b

\* the bytes of data with the sentinels removed, the bytes outside the
\* escaped regions converted and, if blanks, without the blanks
RECURSIVE Passed(_, _, _)
Passed(data, inEsc, blanks) ==
    IF data = <<>> THEN <<>>
    ELSE IF Head(data) = Escape THEN Passed(Tail(data), ~inEsc, blanks)
    ELSE IF inEsc THEN <<Head(data)>> \o Passed(Tail(data), inEsc, blanks)
    ELSE IF Head(data) = " " /\ ~blanks THEN Passed(Tail(data), inEsc, blanks)
    ELSE <<TrimmedByte(Head(data))>> \o Passed(Tail(data), inEsc, blanks)

\* the bytes the writer received, without the blanks written as whitespace
RECURSIVE Received(_, _)
Received(chunks, blanks) ==
    IF chunks = <<>> THEN <<>>
    ELSE (IF Head(chunks).kind = "space" /\ ~blanks
          THEN SelectSeq(Head(chunks).bytes, LAMBDA b : b # " ")
          ELSE Head(chunks).bytes) \o Received(Tail(chunks), blanks)

\* C15 as stated: of a byte sequence with balanced sentinels, every formfeed
\* outside the escaped regions is output as a newline and every vertical tab
\* as a horizontal tab, the sentinels are removed, the bytes between a pair
\* of sentinels are output unchanged, and all other non-whitespace bytes are
\* output unchanged and in order
C15_EveryByteConverted ==
    (pc = "done" /\ walk = "whole")
    => Received(wr.hChunks, FALSE) = Passed(raw, FALSE, FALSE)

\* data without the blanks and vertical tabs outside the escaped regions
\* that only blanks and vertical tabs separate from the next line break or
\* formfeed outside the escaped regions, or from the end
RECURSIVE Untrailed(_, _, _)
Untrailed(data, inEsc, pending) ==
    IF data = <<>> THEN <<>>
    ELSE IF Head(data) = Escape
    THEN pending \o <<Escape>> \o Untrailed(Tail(data), ~inEsc, <<>>)
    ELSE IF inEsc THEN <<Head(data)>> \o Untrailed(Tail(data), inEsc, <<>>)
    ELSE IF Head(data) \in {" ", "VT"}
    THEN Untrailed(Tail(data), inEsc, Append(pending, Head(data)))
    ELSE IF Head(data) \in {"\n", "\f"}
    THEN <<Head(data)>> \o Untrailed(Tail(data), inEsc, <<>>)
    ELSE pending \o <<Head(data)>> \o Untrailed(Tail(data), inEsc, <<>>)

\* C15 as amended: that holds of the bytes that are not trailing whitespace;
\* a vertical tab or blank outside the escaped regions that only blanks and
\* vertical tabs separate from the next line break or the end is dropped
C15_ConvertedUnlessTrailing ==
    (pc = "done" /\ walk = "whole")
    => wr.bytes = Passed(Untrailed(raw, FALSE, <<>>), FALSE, TRUE)

C15_Witness ==
    /\ pc = "done"
    /\ walk = "whole"
    /\ raw = <<Escape, "VT", Escape, "\f">>
    /\ wr.bytes = <<"VT", "\n">>

\* the bytes without the tabs of the indentation
NoTabs(bytes) == SelectSeq(bytes, LAMBDA b : b # "\t")

\* the bytes of the buffered entries in order; swapped tells whether a line
\* break immediately followed by an unindent is written as a formfeed
RECURSIVE EntryBytes(_, _)
EntryBytes(ws, swapped) ==
    IF ws = <<>> THEN <<>>
    ELSE IF Head(ws) \in {indent, unindent, ignore} THEN EntryBytes(Tail(ws), swapped)
    ELSE IF swapped /\ Head(ws) = newline /\ Len(ws) > 1 /\ ws[2] = unindent
    THEN <<formfeed>> \o EntryBytes(Tail(ws), swapped)
    ELSE <<Head(ws)>> \o EntryBytes(Tail(ws), swapped)

\* the depth after the indents and unindents of the entries, from depth d
RECURSIVE EntryDepth(_, _)
EntryDepth(ws, d) ==
    IF ws = <<>> THEN d
    ELSE IF Head(ws) = indent THEN EntryDepth(Tail(ws), d + 1)
    ELSE IF Head(ws) = unindent THEN EntryDepth(Tail(ws), IF d > 0 THEN d - 1 ELSE 0)
    ELSE EntryDepth(Tail(ws), d)

\* what C16 says of the flush of the full buffer
OverflowFlush(swapped) ==
    p.hOverflow # <<>>
    => /\ Len(p.hOverflow.ws) = wsbufCap
       /\ NoTabs(p.hOverflow.bytes) = EntryBytes(p.hOverflow.ws, swapped)
       /\ p.hOverflow.indentAfter = EntryDepth(p.hOverflow.ws, p.hOverflow.indentBefore)
       /\ p.hOverflow.after = <<p.hOverflow.item>>

\* C16 as stated: the whitespace buffer never holds more than 16 entries;
\* when a whitespace item arrives while the buffer is full, the 16 buffered
\* entries are written out in order and the new item becomes the only
\* buffered entry
C16_WrittenInOrder == Len(p.wsbuf) <= wsbufCap /\ OverflowFlush(FALSE)

\* C16 as amended: the entries are written out as writeWhitespace writes
\* them: in order, but a newline immediately followed by an unindent is
\* written after that unindent is applied, and as a formfeed
C16_WrittenAsFlushed == Len(p.wsbuf) <= wsbufCap /\ OverflowFlush(TRUE)

C16_Witness ==
    /\ p.hOverflow # <<>>
    /\ p.hOverflow.ws = [i \in 1..wsbufCap |-> IF i % 2 = 1 THEN newline ELSE unindent]
    /\ p.hOverflow.item = blank
    /\ p.wsbuf = <<blank>>

\* the comments written by the final flush of Config.fprint
EofComments == {i \in 1..Len(p.hClog) : p.hClog[i].tok = "EOF"}

\* C18: when the final flush of Config.Fprint writes pending comments, they
\* are in the output in their original order and the output ends with a
\* line break after the last of them
C18_FinalFlush ==
    (pc = "done" /\ EofComments # {})
    => /\ \A i \in EofComments :
             /\ p.hClog[i].id = AllComments[i].id
             /\ HasInfix(p.hClog[i].textBytes, Drop(AllComments[i].text, 1))
             /\ SubSeq(p.output, p.hClog[i].outEnd - Len(p.hClog[i].textBytes) + 1,
                       p.hClog[i].outEnd) = p.hClog[i].textBytes
             /\ \A j \in EofComments : i < j => p.hClog[i].outEnd < p.hClog[j].outEnd
       /\ Len(p.hClog) \in EofComments
       /\ Len(p.hClog) = Len(AllComments)
       /\ Drop(p.output, p.hClog[Len(p.hClog)].outEnd) \in {<<newline>>, <<formfeed>>}

\* two comments on different lines written by the final flush
C18_Witness ==
    /\ pc = "done"
    /\ Cardinality(EofComments) = 2
    /\ p.hItems > 0
    /\ Len(p.output) > 0
    /\ p.output[Len(p.output)] = newline

\* the places of the output at which object o is expanded
Expansions(o) == {k \in 1..Len(ap.output) : ap.output[k] = Piece("T {", o)}

\* the line number printed at the start of the line of place k
LineOf(k) ==
    ap.output[CHOOSE j \in 1..k :
                 /\ ap.output[j].t = "line"
                 /\ \A i \in (j + 1)..k : ap.output[i].t # "line"].n

\* place k is a pointer to o that is not expanded
IsBackRef(k, o) ==
    /\ ap.output[k] = Piece("*", o)
    /\ k < Len(ap.output)
    /\ ap.output[k + 1].t # "T {"

\* every pointer is expanded at most once, and each later encounter prints
\* the number of the line on which it was expanded
ExpandedOnce ==
    \A o \in Objects :
        /\ Cardinality(Expansions(o)) <= 1
        /\ \A k \in 1..Len(ap.output) :
              IsBackRef(k, o)
              => /\ ap.output[k + 1].t = "(obj @ %d)"
                 /\ \E e \in Expansions(o) :
                       /\ e < k
                       /\ ap.output[e - 1] = Piece("*", o)
                       /\ ap.output[k + 1].n = LineOf(e)

\* C17: during one ast.Fprint call each distinct pointer is expanded at most
\* once, every later encounter of it prints only a back-reference with the
\* number of the output line on which it was first printed, and Fprint
\* terminates on every finite graph whose cycles pass through pointers
C17_PointersOnce == [](ExpandedOnce) /\ <>(ap.state = "done")

\* both fields of an object point back to it
C17_Witness ==
    /\ ap.state = "done"
    /\ ap.heap[1] = [X |-> 1, Y |-> 1]
    /\ Cardinality({k \in 1..Len(ap.output) : ap.output[k].t = "(obj @ %d)"}) = 2
    /\ Cardinality(Expansions(1)) = 1

\* the number of tokens t in a token sequence
CountOf(toks, t) == Cardinality({i \in 1..Len(toks) : toks[i] = t})

\* the tokens after the last token of a line
AfterLastLine(toks) ==
    LET at == {i \in 1..Len(toks) : toks[i] \in {"IDENT", "ADD"}}
    IN IF at = {} THEN toks
       ELSE SubSeq(toks, (CHOOSE i \in at : \A j \in at : j <= i) + 1, Len(toks))

\* the STATEMENT_END that the last token of the last line implied, if any
Implied(toks) ==
    IF toks # <<>> /\ Head(toks) = "STATEMENT_END" /\ lex.form = "terminated"
    THEN Tail(toks) ELSE toks

\* C19: at the end of the input the indentation stack has length 1 and its
\* only element is the base column, the scanner has emitted one CLOSE_BLOCK
\* for every deeper column it popped and then a final STATEMENT_END
C19_StackAtEnd ==
    /\ lex.state = "done"
       => /\ lex.stack = BaseStack
          /\ CountOf(lex.tokens, "CLOSE_BLOCK") = CountOf(lex.tokens, "OPEN_BLOCK")
          /\ \E n \in 0..MaxLines :
                Implied(AfterLastLine(lex.tokens))
                    = [i \in 1..n |-> "CLOSE_BLOCK"] \o <<"STATEMENT_END">>
    /\ lex.state = "scanning"
       => /\ Len(lex.stack) >= 1
          /\ lex.stack[1] = BaseStack[1]
          /\ Len(lex.stack) - 1
                = CountOf(lex.tokens, "OPEN_BLOCK") - CountOf(lex.tokens, "CLOSE_BLOCK")

\* two open blocks are closed at the end of the input
C19_Witness ==
    /\ lex.state = "done"
    /\ lex.stack = BaseStack
    /\ lex.lines = 3
    /\ Implied(AfterLastLine(lex.tokens)) = <<"CLOSE_BLOCK", "CLOSE_BLOCK", "STATEMENT_END">>

\* the columns of a stack above column c
Above(stack, c) == {i \in 1..Len(stack) : stack[i] > c}

\* C20: at a logical line start in a column c below the top of the stack the
\* scanner pops exactly the columns above c and emits one CLOSE_BLOCK for
\* each, then a STATEMENT_END; a c that is no column of the stack is a
\* lexical error; over a scan without error the CLOSE_BLOCK tokens are as
\* many as the OPEN_BLOCK tokens
C20_Dedent ==
    /\ (lex.hLine # <<>> /\ lex.hLine.c < Top(lex.hLine.before))
       => /\ lex.hLine.after
                = SubSeq(lex.hLine.before, 1,
                         Len(lex.hLine.before) - Cardinality(Above(lex.hLine.before, lex.hLine.c)))
          /\ lex.hLine.emitted
                = [i \in 1..Cardinality(Above(lex.hLine.before, lex.hLine.c)) |-> "CLOSE_BLOCK"]
                  \o <<"STATEMENT_END">>
          /\ lex.hLine.error <=> (\A i \in 1..Len(lex.hLine.before) : lex.hLine.before[i] # lex.hLine.c)
    /\ (lex.state = "done" /\ lex.errors = 0)
       => CountOf(lex.tokens, "CLOSE_BLOCK") = CountOf(lex.tokens, "OPEN_BLOCK")

\* a dedent over two levels
C20_Witness ==
    /\ lex.hLine # <<>>
    /\ lex.hLine.before = <<1, 2, 3>>
    /\ lex.hLine.c = 1
    /\ lex.hLine.after = <<1>>
    /\ lex.hLine.emitted = <<"CLOSE_BLOCK", "CLOSE_BLOCK", "STATEMENT_END">>

\* the groups that were pending when the flush before the last item began
PendingBefore ==
    {g \in 1..Len(p.comments) :
        Len(p.comments[g]) > 0 /\ FirstIndex(p.comments, g) > p.hStep.cmtsBefore}

\* group g was written by the flush before the last item
GroupWritten(g) == FirstIndex(p.comments, g) <= p.hStep.cmtsAfter

\* the condition of commentBefore for group g at the flush before the last item
MayPrecede(g) ==
    /\ GroupOffset(g) < p.hStep.next.Offset
    /\ ~(p.hStep.semiBefore /\ commentsHaveNewline(p.comments[g]))

\* no comment of a group with a newline was written while impliedSemi was set
NoNewlineWhileSemi ==
    \A i \in 1..Len(p.hClog) : ~(p.hClog[i].semi /\ p.hClog[i].groupNewline)

\* the first pending group has a newline and was held back under impliedSemi
\* by the flush before the last item
HeldBack ==
    /\ Written
    /\ p.hStep.semiBefore
    /\ \E g \in PendingGroups :
          /\ \A h \in PendingGroups : g <= h
          /\ GroupOffset(g) < p.hStep.next.Offset
          /\ commentsHaveNewline(p.comments[g])

\* a held-back group is written in a step only if a line break is queued or
\* the step is the flush at end of file
ReleasedByBreak ==
    (HeldBack /\ Len(p'.hClog) > Len(p.hClog)) =>
        \/ \E i \in 1..Len(p.wsbuf) : p.wsbuf[i] \in LineBreaks
        \/ pc' = "done"

\* C22 as stated: a pending comment group is written before a token if and
\* only if its offset is less than the token's and it is not the case that
\* impliedSemi is set while the group contains a newline; no group with a
\* newline is written while impliedSemi is set, and such a group stays
\* pending until a line break has been queued or end of file is reached.
C22_PendingUntilBreak ==
    /\ [](Written => \A g \in PendingBefore : GroupWritten(g) <=> MayPrecede(g))
    /\ []NoNewlineWhileSemi
    /\ [][ReleasedByBreak]_vars

\* C22, amended: the groups written before a token are the pending groups up
\* to the first one that fails the condition of commentBefore (offset less
\* than the token's, and not impliedSemi with a newline in the group); no
\* group with a newline is written while impliedSemi is set: it stays
\* pending as long as impliedSemi is set.
C22_WrittenUpToFirstHeld ==
    /\ NoNewlineWhileSemi
    /\ Written =>
          \A g \in PendingBefore :
              GroupWritten(g) <=> \A h \in PendingBefore : h <= g => MayPrecede(h)

\* a group with a newline that lies before the item written last was written
\* before the next item with no line break queued in between
C22_Witness ==
    /\ Written
    /\ p.hStep.cmtsAfter > p.hStep.cmtsBefore
    /\ \A i \in 1..Len(p.hStep.wsBefore) : p.hStep.wsBefore[i] \notin LineBreaks
    /\ \E g \in PendingBefore :
          /\ GroupWritten(g)
          /\ commentsHaveNewline(p.comments[g])
          /\ GroupOffset(g) < p.hStep.lastBefore.Offset

\* the item written last is one after which a line break implies a semicolon
SemiItem ==
    \/ p.hStep.kind \in {"ident", "lit", "str"}
    \/ p.hStep.kind = "tok" /\ p.hStep.tok \in SemiTokens

\* the print call of the step wrote an item
ItemWritten == p'.hItems > p.hItems

\* the print call of the step queued a line break
BreakQueued ==
    /\ p'.hItems = p.hItems
    /\ Len(p'.wsbuf) > 0
    /\ p'.wsbuf # p.wsbuf
    /\ p'.wsbuf[Len(p'.wsbuf)] \in LineBreaks

\* C23: immediately after print writes an item impliedSemi is true exactly
\* when the item is an identifier, a literal or one of break, continue,
\* fallthrough, return, ++, --, ')', ']', '}'; queuing a newline or a
\* formfeed resets impliedSemi to false.
C23_SemiAfterItem ==
    [][/\ ItemWritten => (p'.impliedSemi <=> SemiItem')
       /\ BreakQueued => ~p'.impliedSemi]_vars

\* the indentation depth after the first m entries of buf, from depth d
RECURSIVE DepthAfter(_, _, _)
DepthAfter(buf, m, d) ==
    IF m = 0 THEN d
    ELSE LET e == DepthAfter(buf, m - 1, d)
         IN CASE buf[m] = indent -> e + 1
              [] buf[m] = unindent -> IF e > 0 THEN e - 1 ELSE 0
              [] OTHER -> e

\* the number of UNINDENT entries that follow entry j of buf without a gap
\* among the first n entries
RECURSIVE RunAfter(_, _, _)
RunAfter(buf, j, n) ==
    IF j + 1 <= n /\ buf[j + 1] = unindent THEN 1 + RunAfter(buf, j + 1, n) ELSE 0

\* the line-break entries among the first n entries of the call's buffer
BreakEntries == {j \in 1..ww.n : ww.buf[j] \in LineBreaks}

\* the iterations that wrote a line-break byte
BreakWrites == {x \in 1..Len(ww.log) : ww.log[x].byte \in {"\n", "\f"}}

\* the line break at entry j was written after the k unindents of its run
\* were applied, as the byte ch
BreakWritten(j, k, ch) ==
    \E x \in BreakWrites :
        /\ ww.log[x].i = j + k
        /\ ww.log[x].byte = ch
        /\ ww.log[x].depth = DepthAfter(ww.buf, j + k, ww.depth)

\* the loop of writeWhitespace has passed entry j and the run after it
Passed24(j) == ww.i > j + RunAfter(ww.buf, j, ww.n)

WwDone == ww.state = "done"

\* C24: in writeWhitespace(n) the k >= 1 unindents that follow a line break
\* among the first n entries are all applied before the break is written,
\* and the break is written as a formfeed; a line break not followed by an
\* unindent is written as it is; the loop terminates and leaves exactly the
\* entries from index n on in the buffer.
C24_UnindentsBeforeBreak ==
    /\ [](\A j \in BreakEntries :
            Passed24(j) =>
                BreakWritten(j, RunAfter(ww.buf, j, ww.n),
                             IF RunAfter(ww.buf, j, ww.n) >= 1 THEN "\f" ELSE ww.buf[j]))
    /\ [](Cardinality(BreakWrites) <= Cardinality(BreakEntries))
    /\ [](WwDone =>
            /\ ww.q.wsbuf = SubSeq(ww.buf, ww.n + 1, Len(ww.buf))
            /\ ww.q.indent = DepthAfter(ww.buf, ww.n, ww.depth)
            /\ ww.q = writeWhitespace([IdlePrinter EXCEPT !.wsbuf = ww.buf,
                                                          !.indent = ww.depth], ww.n))
    /\ (ww.state = "loop" ~> WwDone)

\* a call that ended after a newline followed by two unindents, written as a
\* formfeed at depth 0
C24_Witness ==
    /\ WwDone
    /\ ww.depth = 2
    /\ \E j \in BreakEntries :
          /\ ww.buf[j] = newline
          /\ RunAfter(ww.buf, j, ww.n) = 2
          /\ BreakWritten(j, 2, "\f")
    /\ ww.q.indent = 0

\* the number of entries of ws from entry i on that the second loop of
\* writeCommentPrefix passes before it meets an unindent or stops
RECURSIVE Lead(_, _)
Lead(ws, i) ==
    IF i <= Len(ws) /\ ws[i] \in {blank, vtab, indent} THEN 1 + Lead(ws, i + 1) ELSE 0

\* the length of the run of unindents of ws that begins at entry i
RECURSIVE RunAt(_, _)
RunAt(ws, i) == IF i <= Len(ws) /\ ws[i] = unindent THEN 1 + RunAt(ws, i + 1) ELSE 0

\* the comments written on another line than the last written item, with a
\* comment prefix, in the file of the last item
OtherLineComments ==
    {x \in 1..Len(p.hClog) :
        /\ ~p.hClog[x].outEmpty
        /\ p.hClog[x].tok # "LBRACE"
        /\ ~(IsValid(p.hClog[x].cpos)
                /\ p.hClog[x].cpos.Filename # p.hClog[x].lastBefore.Filename)
        /\ p.hClog[x].cpos.Line # p.hClog[x].lastBefore.Line}

\* the number of buffer entries the prefix of comment x wrote
PrefixApplied(x) == Len(p.hClog[x].wsBefore) - Len(p.hClog[x].wsPrefix)

\* the first run of unindents of the buffer before comment x ends at entry e:
\* the last unindent of the run is applied before the comment exactly when
\* the next token is no closing brace and stands in the comment's column, the
\* unindents before it are applied always, and otherwise the last unindent
\* and the entries after it stay in the buffer
RunApplied(x, e) ==
    IF p.hClog[x].tok # "RBRACE" /\ p.hClog[x].cpos.Column = p.hClog[x].next.Column
    THEN PrefixApplied(x) >= e
    ELSE PrefixApplied(x) = e - 1

\* C25: in writeCommentPrefix for a comment on another line than the last
\* written item, the last unindent of a pending run is applied before the
\* comment if and only if the next token is not a closing brace and the
\* comment's column equals the next token's; an unindent directly followed
\* by another is always applied; otherwise the unindent and the entries
\* after it stay pending until after the comment.
C25_UnindentBeforeComment ==
    \A x \in OtherLineComments :
        RunAt(p.hClog[x].wsBefore, Lead(p.hClog[x].wsBefore, 1) + 1) >= 1 =>
            RunApplied(x, Lead(p.hClog[x].wsBefore, 1)
                            + RunAt(p.hClog[x].wsBefore, Lead(p.hClog[x].wsBefore, 1) + 1))

\* the bytes of a //line directive begin the bytes the call has written
Synthesized ==
    HasPrefix(Grown(lb.q0, lb.q), <<Escape, "/", "/", "l", "i", "n", "e", " ">>)

\* the output-space position before the call differs from the item's
OutDiffers ==
    lb.q0.out.Line # lb.pos.Line \/ lb.q0.out.Filename # lb.pos.Filename

\* C26: at the start of an output line a //line directive is synthesized if
\* and only if SourcePos is set, the item's source position is valid and the
\* output-space line or file name differs from the source position's;
\* immediately afterwards the output-space line and file name equal the
\* source position's; with SourcePos unset no directive is synthesized.
C26_DirectiveAtLineBegin ==
    lb.state \in {"begun", "done"} =>
        /\ Synthesized <=>
              /\ lb.q0.out.Column = 1
              /\ lb.q0.SourcePos
              /\ IsValid(lb.pos)
              /\ OutDiffers
        /\ (lb.state = "begun" /\ Synthesized) =>
              /\ lb.q.out.Line = lb.pos.Line
              /\ lb.q.out.Filename = lb.pos.Filename
              /\ Grown(lb.q0, lb.q) = SourceLine(lb.pos) \o Rep("\t", lb.q0.indent)
        /\ ~lb.q0.SourcePos => ~Synthesized

\* a directive synthesized at the start of a line whose number agrees with
\* the item's and whose file name does not
C26_Witness ==
    /\ lb.state = "begun"
    /\ Synthesized
    /\ lb.q0.out.Line = lb.pos.Line
    /\ lb.q0.out.Filename # lb.pos.Filename
    /\ lb.q.out.Filename = lb.pos.Filename

\* a comment's text without its sigil: the one byte of the indented form,
\* the two slashes of the curly form
Body(text) == IF HasPrefix(text, LineStyle) THEN Drop(text, 2) ELSE Drop(text, 1)

\* the block form of a comment text, as a literal of the raw buffer
BlockForm(text) ==
    <<Escape>> \o BlockStyle \o trimRight(Body(text)) \o <<" ", "*", "/", " ", Escape>>

\* s ends with t
HasSuffix(s, t) == Len(s) >= Len(t) /\ SubSeq(s, Len(s) - Len(t) + 1, Len(s)) = t

\* the comments written before an opening brace
BraceComments == {x \in 1..Len(p.hClog) : p.hClog[x].tok = "LBRACE"}

\* C27: when the next token is an opening brace every comment interspersed
\* before it is written in block form, " /*" + text + " */ ", without the
\* line breaks of a comment prefix and never in //-style, so that the
\* comment does not put the brace on a commented-out line.
C27_BlockFormBeforeBrace ==
    \A x \in BraceComments :
        /\ HasSuffix(p.hClog[x].textBytes, BlockForm(p.hClog[x].text))
        /\ p.hClog[x].prefixBytes = <<>>
        /\ \A k \in 1..(Len(p.hClog[x].textBytes) - 1) :
              (p.hClog[x].textBytes[k] = "/" /\ p.hClog[x].textBytes[k + 1] = "/") =>
                  \E n \in (k + 2)..Len(p.hClog[x].textBytes) :
                      p.hClog[x].textBytes[n] = "\n"

\* the comments written in //-style
LineStyleComments == {x \in 1..Len(p.hClog) : p.hClog[x].tok # "LBRACE"}

\* C28: every comment that intersperseComments writes in //-style belongs to
\* a comment group whose commentNewline flag is true, whatever its text, so
\* no //-style comment is written while impliedSemi is set.
C28_LineStyleHasNewline ==
    \A x \in LineStyleComments : p.hClog[x].groupNewline /\ ~p.hClog[x].semi

\* the bytes the writer receives when the raw buffer reaches the trimmer in
\* one Write
WholeBytes == trimmerWrite(IdleTrimmer, IdleWriter, raw, {}).w.bytes

\* C29: the bytes the trimmer writes to its underlying writer for an input
\* are the same for every way of splitting the input into consecutive Write
\* calls, also for a split inside an escaped region, inside a run of blanks
\* and tabs or inside text.
C29_SplitInvariant ==
    (walk = "split" /\ pc = "done") => wr.bytes = WholeBytes

\* the token-combination guard fired for the token written last
GuardFired ==
    /\ Written
    /\ p.hStep.kind = "tok"
    /\ mayCombine(p.hStep.prevTok, p.hStep.data[1])

\* C30: immediately after print writes an item with data the whitespace
\* buffer is empty, and whenever the token-combination guard fires the
\* buffer is empty, so the forced blank replaces no pending entry and the
\* internal error 'whitespace buffer not empty' is not reached.
C30_GuardOnEmptyBuffer ==
    /\ [][ItemWritten => p'.wsbuf = <<>>]_vars
    /\ [](GuardFired => p.hStep.wsBefore = <<>>)

\* the guard fired: a '+' was written after a '+' and a blank separates them
C30_Witness ==
    /\ GuardFired
    /\ p.hStep.prevTok = "ADD"
    /\ p.hStep.tok = "ADD"
    /\ p.hStep.wsBefore = <<>>
    /\ Len(p.output) >= 3
    /\ SubSeq(p.output, Len(p.output) - 2, Len(p.output)) = <<"+", " ", "+">>

====
